---- MODULE Spec2Model ----
(***************************************************************************)
(* The FAO ETL pipeline of py/parse_enhanced.py (EnhancedFAODataProcessor)  *)
(* and the script py/extend_timeseries.py as a state machine: the source    *)
(* CSV and the output directory are the                                    *)
(* persistent state, the processor object's fields (df, filtered_df,       *)
(* kcal_df) and its position in process_all are the transient state.       *)
(*                                                                         *)
(* Representation.                                                         *)
(*  - A Python str is the sequence of its code points, so that str.lower,  *)
(*    str.contains, str.replace and the ordering of strings that pandas'   *)
(*    groupby sorts by are computed, not assumed.  Every string constant   *)
(*    below carries its text in the comment above it.                      *)
(*  - A float is a fixed-point integer counting tenths: 1200 is 120.0 and  *)
(*    3105 is 310.5.  The Value cells of the source table are text and are *)
(*    parsed by ToNumeric; the cells the model draws are unsigned decimals *)
(*    with at most one fractional digit, or text that is no number.        *)
(*  - A Python dict whose keys are computed (a YearRecord, the calorie     *)
(*    lookup) is the sequence of its <<key, value>> pairs in insertion     *)
(*    order, which is the order json.dump writes; a dict with fixed keys   *)
(*    is a record.                                                         *)
(*  - A file is its parsed JSON content; the output directory is the       *)
(*    function from the names of the files that exist to their content.    *)
(***************************************************************************)
EXTENDS Integers, Sequences, FiniteSets, TLC

VARIABLES
    csv,          \* the source table fao.csv: a sequence of rows, Value as text
    files,        \* the output directory: file name -> content, for the files that exist
    df,           \* self.df
    filtered_df,  \* self.filtered_df
    kcal_df,      \* self.kcal_df
    pc,           \* the position of the running process in process_all
    runs,         \* how many times parse_enhanced.py has been started
    extends,      \* how many times extend_timeseries.py has run
    element_arg,  \* the argument of a call of _normalize_element_name
    element_ret,  \* what the call returned
    written       \* the files the running process_all has written, in order

vars == <<csv, files, df, filtered_df, kcal_df, pc, runs, extends, element_arg, element_ret,
          written>>

-----------------------------------------------------------------------------
(* String constants of the program.                                         *)

\* AGGREGATE_AREAS, the denylist of aggregate regions (30 names).
AGGREGATE_AREAS ==
    {
      \* "World"
      <<87, 111, 114, 108, 100>>,
      \* "Africa"
      <<65, 102, 114, 105, 99, 97>>,
      \* "Americas"
      <<65, 109, 101, 114, 105, 99, 97, 115>>,
      \* "Asia"
      <<65, 115, 105, 97>>,
      \* "Europe"
      <<69, 117, 114, 111, 112, 101>>,
      \* "Oceania"
      <<79, 99, 101, 97, 110, 105, 97>>,
      \* "Eastern Africa"
      <<69, 97, 115, 116, 101, 114, 110, 32, 65, 102, 114, 105, 99, 97>>,
      \* "Middle Africa"
      <<77, 105, 100, 100, 108, 101, 32, 65, 102, 114, 105, 99, 97>>,
      \* "Northern Africa"
      <<78, 111, 114, 116, 104, 101, 114, 110, 32, 65, 102, 114, 105, 99, 97>>,
      \* "Southern Africa"
      <<83, 111, 117, 116, 104, 101, 114, 110, 32, 65, 102, 114, 105, 99, 97>>,
      \* "Western Africa"
      <<87, 101, 115, 116, 101, 114, 110, 32, 65, 102, 114, 105, 99, 97>>,
      \* "Eastern Asia"
      <<69, 97, 115, 116, 101, 114, 110, 32, 65, 115, 105, 97>>,
      \* "South-eastern Asia"
      <<83, 111, 117, 116, 104, 45, 101, 97, 115, 116, 101, 114, 110, 32, 65, 115, 105, 97>>,
      \* "Southern Asia"
      <<83, 111, 117, 116, 104, 101, 114, 110, 32, 65, 115, 105, 97>>,
      \* "Western Asia"
      <<87, 101, 115, 116, 101, 114, 110, 32, 65, 115, 105, 97>>,
      \* "Central America"
      <<67, 101, 110, 116, 114, 97, 108, 32, 65, 109, 101, 114, 105, 99, 97>>,
      \* "South America"
      <<83, 111, 117, 116, 104, 32, 65, 109, 101, 114, 105, 99, 97>>,
      \* "Northern America"
      <<78, 111, 114, 116, 104, 101, 114, 110, 32, 65, 109, 101, 114, 105, 99, 97>>,
      \* "Eastern Europe"
      <<69, 97, 115, 116, 101, 114, 110, 32, 69, 117, 114, 111, 112, 101>>,
      \* "Northern Europe"
      <<78, 111, 114, 116, 104, 101, 114, 110, 32, 69, 117, 114, 111, 112, 101>>,
      \* "Southern Europe"
      <<83, 111, 117, 116, 104, 101, 114, 110, 32, 69, 117, 114, 111, 112, 101>>,
      \* "Western Europe"
      <<87, 101, 115, 116, 101, 114, 110, 32, 69, 117, 114, 111, 112, 101>>,
      \* "European Union"
      <<69, 117, 114, 111, 112, 101, 97, 110, 32, 85, 110, 105, 111, 110>>,
      \* "European Union (27)"
      <<69, 117, 114, 111, 112, 101, 97, 110, 32, 85, 110, 105, 111, 110, 32, 40, 50, 55, 41>>,
      \* "European Union (28)"
      <<69, 117, 114, 111, 112, 101, 97, 110, 32, 85, 110, 105, 111, 110, 32, 40, 50, 56, 41>>,
      \* "Land Locked Developing Countries"
      <<76, 97, 110, 100, 32, 76, 111, 99, 107, 101, 100, 32, 68, 101, 118, 101, 108, 111, 112, 105, 110, 103, 32, 67, 111, 117, 110, 116, 114, 105, 101, 115>>,
      \* "Least Developed Countries"
      <<76, 101, 97, 115, 116, 32, 68, 101, 118, 101, 108, 111, 112, 101, 100, 32, 67, 111, 117, 110, 116, 114, 105, 101, 115>>,
      \* "Low Income Food Deficit Countries"
      <<76, 111, 119, 32, 73, 110, 99, 111, 109, 101, 32, 70, 111, 111, 100, 32, 68, 101, 102, 105, 99, 105, 116, 32, 67, 111, 117, 110, 116, 114, 105, 101, 115>>,
      \* "Net Food Importing Developing Countries"
      <<78, 101, 116, 32, 70, 111, 111, 100, 32, 73, 109, 112, 111, 114, 116, 105, 110, 103, 32, 68, 101, 118, 101, 108, 111, 112, 105, 110, 103, 32, 67, 111, 117, 110, 116, 114, 105, 101, 115>>,
      \* "Small Island Developing States"
      <<83, 109, 97, 108, 108, 32, 73, 115, 108, 97, 110, 100, 32, 68, 101, 118, 101, 108, 111, 112, 105, 110, 103, 32, 83, 116, 97, 116, 101, 115>>
    }

(* FAO element names the program names. *)
\* "Import quantity"
ImportQuantity ==
    <<73, 109, 112, 111, 114, 116, 32, 113, 117, 97, 110, 116, 105, 116, 121>>

\* "Export quantity"
ExportQuantity ==
    <<69, 120, 112, 111, 114, 116, 32, 113, 117, 97, 110, 116, 105, 116, 121>>

\* "Production"
Production ==
    <<80, 114, 111, 100, 117, 99, 116, 105, 111, 110>>

\* "Domestic supply quantity"
DomesticSupplyQuantity ==
    <<68, 111, 109, 101, 115, 116, 105, 99, 32, 115, 117, 112, 112, 108, 121, 32, 113, 117, 97, 110, 116, 105, 116, 121>>

\* "Feed"
Feed ==
    <<70, 101, 101, 100>>

\* "Protein supply quantity (t)"
ProteinSupplyT ==
    <<80, 114, 111, 116, 101, 105, 110, 32, 115, 117, 112, 112, 108, 121, 32, 113, 117, 97, 110, 116, 105, 116, 121, 32, 40, 116, 41>>

\* "Protein supply quantity (g/capita/day)"
ProteinSupplyGpcd ==
    <<80, 114, 111, 116, 101, 105, 110, 32, 115, 117, 112, 112, 108, 121, 32, 113, 117, 97, 110, 116, 105, 116, 121, 32, 40, 103, 47, 99, 97, 112, 105, 116, 97, 47, 100, 97, 121, 41>>

\* "Fat supply quantity (t)"
FatSupplyT ==
    <<70, 97, 116, 32, 115, 117, 112, 112, 108, 121, 32, 113, 117, 97, 110, 116, 105, 116, 121, 32, 40, 116, 41>>

\* "Fat supply quantity (g/capita/day)"
FatSupplyGpcd ==
    <<70, 97, 116, 32, 115, 117, 112, 112, 108, 121, 32, 113, 117, 97, 110, 116, 105, 116, 121, 32, 40, 103, 47, 99, 97, 112, 105, 116, 97, 47, 100, 97, 121, 41>>

\* "Processing"
Processing ==
    <<80, 114, 111, 99, 101, 115, 115, 105, 110, 103>>

\* "Food supply (kcal/capita/day)"
FoodSupplyKcal ==
    <<70, 111, 111, 100, 32, 115, 117, 112, 112, 108, 121, 32, 40, 107, 99, 97, 108, 47, 99, 97, 112, 105, 116, 97, 47, 100, 97, 121, 41>>

(* JSON keys the program writes. *)
\* "imports"
k_imports ==
    <<105, 109, 112, 111, 114, 116, 115>>

\* "exports"
k_exports ==
    <<101, 120, 112, 111, 114, 116, 115>>

\* "production"
k_production ==
    <<112, 114, 111, 100, 117, 99, 116, 105, 111, 110>>

\* "domestic_supply"
k_domestic_supply ==
    <<100, 111, 109, 101, 115, 116, 105, 99, 95, 115, 117, 112, 112, 108, 121>>

\* "feed"
k_feed ==
    <<102, 101, 101, 100>>

\* "protein"
k_protein ==
    <<112, 114, 111, 116, 101, 105, 110>>

\* "protein_gpcd"
k_protein_gpcd ==
    <<112, 114, 111, 116, 101, 105, 110, 95, 103, 112, 99, 100>>

\* "fat"
k_fat ==
    <<102, 97, 116>>

\* "fat_gpcd"
k_fat_gpcd ==
    <<102, 97, 116, 95, 103, 112, 99, 100>>

\* "processing"
k_processing ==
    <<112, 114, 111, 99, 101, 115, 115, 105, 110, 103>>

\* "food_supply_kcal"
k_food_supply_kcal ==
    <<102, 111, 111, 100, 95, 115, 117, 112, 112, 108, 121, 95, 107, 99, 97, 108>>

\* "year"
k_year ==
    <<121, 101, 97, 114>>

(* Substrings the item filter looks for, and the unit label it writes. *)
\* "alcohol"
s_alcohol ==
    <<97, 108, 99, 111, 104, 111, 108>>

\* "non-food"
s_non_food ==
    <<110, 111, 110, 45, 102, 111, 111, 100>>

\* "t"
base_unit ==
    <<116>>

\* "1000 t"
default_unit ==
    <<49, 48, 48, 48, 32, 116>>

-----------------------------------------------------------------------------
(* Strings of the input tables the model draws.                             *)

\* "Brazil"
Brazil ==
    <<66, 114, 97, 122, 105, 108>>

\* "South Africa"
SouthAfrica ==
    <<83, 111, 117, 116, 104, 32, 65, 102, 114, 105, 99, 97>>

\* "World"
World ==
    <<87, 111, 114, 108, 100>>

\* "world"
world_lower ==
    <<119, 111, 114, 108, 100>>

\* "Soyabeans"
Soyabeans ==
    <<83, 111, 121, 97, 98, 101, 97, 110, 115>>

\* "Wheat and products"
WheatAndProducts ==
    <<87, 104, 101, 97, 116, 32, 97, 110, 100, 32, 112, 114, 111, 100, 117, 99, 116, 115>>

\* "Alcohol, Non-Food"
AlcoholNonFood ==
    <<65, 108, 99, 111, 104, 111, 108, 44, 32, 78, 111, 110, 45, 70, 111, 111, 100>>

\* "Losses"
Losses ==
    <<76, 111, 115, 115, 101, 115>>

\* "1000 t"
Unit1000t ==
    <<49, 48, 48, 48, 32, 116>>

\* "kcal/capita/day"
UnitKcal ==
    <<107, 99, 97, 108, 47, 99, 97, 112, 105, 116, 97, 47, 100, 97, 121>>

\* "g/capita/day"
UnitGpcd ==
    <<103, 47, 99, 97, 112, 105, 116, 97, 47, 100, 97, 121>>

\* "t"
UnitT ==
    <<116>>

\* "120.0"
v120_0 ==
    <<49, 50, 48, 46, 48>>

\* "310.5"
v310_5 ==
    <<51, 49, 48, 46, 53>>

\* "80"
v80 ==
    <<56, 48>>

\* "12,5"
v12c5 ==
    <<49, 50, 44, 53>>

\* ""
v_empty ==
    <<>>
-----------------------------------------------------------------------------
(* Python and pandas primitives.                                            *)

\* One character of str.lower(): A-Z to a-z, every other character kept.
LowerChar(c) ==
    IF c >= 65 /\ c <= 90 THEN c + 32 ELSE c

\* str.lower()
Lower(s) ==
    [i \in 1..Len(s) |-> LowerChar(s[i])]

\* Series.str.contains(pat) for a pattern without regex metacharacters:
\* pat occurs in s as a contiguous substring.
Contains(s, pat) ==
    \E i \in 0..(Len(s) - Len(pat)) : SubSeq(s, i + 1, i + Len(pat)) = pat

\* The order of Python strings (by code point, a proper prefix first).
StrLess(a, b) ==
    \E i \in 1..(Len(b)) :
        /\ \A j \in 1..(i - 1) : j <= Len(a) /\ a[j] = b[j]
        /\ (i > Len(a) \/ (i <= Len(a) /\ a[i] < b[i]))
        /\ i - 1 <= Len(a)

\* The order of Python tuples of a string and a string.
PairLess(p, q) ==
    StrLess(p[1], q[1]) \/ (p[1] = q[1] /\ StrLess(p[2], q[2]))

\* The order of Python tuples (str, str, int).
TripleLess(p, q) ==
    \/ StrLess(p[1], q[1])
    \/ (p[1] = q[1] /\ StrLess(p[2], q[2]))
    \/ (p[1] = q[1] /\ p[2] = q[2] /\ p[3] < q[3])

IntLess(a, b) ==
    a < b

\* sorted(S): the elements of the finite set S in ascending order of Less.
SortSet(S, Less(_, _)) ==
    [i \in 1..Cardinality(S) |->
        CHOOSE x \in S : Cardinality({y \in S : Less(y, x)}) = i - 1]

\* The values of a sequence, and Series.unique(): the distinct values in the
\* order of their first occurrence.
Range(s) ==
    {s[i] : i \in 1..Len(s)}

RECURSIVE Unique(_)
Unique(s) ==
    IF s = <<>> THEN <<>>
    ELSE LET u == Unique(SubSeq(s, 1, Len(s) - 1))
             x == s[Len(s)]
         IN  IF x \in Range(u) THEN u ELSE Append(u, x)

\* Series.sum() of a sequence of numbers (0 for none).
RECURSIVE Sum(_)
Sum(s) ==
    IF s = <<>> THEN 0 ELSE s[1] + Sum(Tail(s))

\* d[k] = v on a Python dict: an existing key keeps its place and takes the
\* new value, a new key goes last.
DictSet(d, k, v) ==
    IF \E i \in 1..Len(d) : d[i][1] = k
    THEN [i \in 1..Len(d) |-> IF d[i][1] = k THEN <<k, v>> ELSE d[i]]
    ELSE Append(d, <<k, v>>)

\* k in d, d[k] and the keys of a Python dict.
DictHas(d, k) ==
    \E i \in 1..Len(d) : d[i][1] = k

DictGet(d, k) ==
    d[CHOOSE i \in 1..Len(d) : d[i][1] = k][2]

DictKeys(d) ==
    {d[i][1] : i \in 1..Len(d)}

\* The float NaN that pandas puts where a cell holds no number.  No parsed
\* value is negative, so -1 stands for it.
NaN ==
    -1

\* pd.notna(x)
notna(x) ==
    x # NaN

IsDigit(c) ==
    c >= 48 /\ c <= 57

\* The number a string of digits denotes.
RECURSIVE DigitsValue(_)
DigitsValue(s) ==
    IF s = <<>> THEN 0
    ELSE DigitsValue(SubSeq(s, 1, Len(s) - 1)) * 10 + (s[Len(s)] - 48)

\* pd.to_numeric(cell, errors='coerce') in tenths, for a cell made of digits
\* with at most one "." and at most one digit after it; any other text the
\* model draws is no number and becomes NaN.
ToNumeric(cell) ==
    LET dots == {i \in 1..Len(cell) : cell[i] = 46}
        int  == IF dots = {} THEN cell
                ELSE SubSeq(cell, 1, (CHOOSE i \in dots : TRUE) - 1)
        frac == IF dots = {} THEN <<>>
                ELSE SubSeq(cell, (CHOOSE i \in dots : TRUE) + 1, Len(cell))
    IN  IF /\ Cardinality(dots) <= 1
           /\ Len(int) + Len(frac) >= 1
           /\ Len(frac) <= 1
           /\ \A i \in 1..Len(cell) : IsDigit(cell[i]) \/ cell[i] = 46
        THEN DigitsValue(int) * 10 + DigitsValue(frac)
        ELSE NaN

\* pd.to_numeric(t['Value'], errors='coerce') on a table
to_numeric(t) ==
    [i \in 1..Len(t) |-> [t[i] EXCEPT !.Value = ToNumeric(@)]]

\* Variant of dropna: the rows without a number are kept with Value 0
\* (fillna(0)) instead of being dropped.
dropna_fillna_zero(t) ==
    [i \in 1..Len(t) |-> IF notna(t[i].Value) THEN t[i] ELSE [t[i] EXCEPT !.Value = 0]]

\* t.dropna(subset=['Value'])
dropna(t) ==
    SelectSeq(t, LAMBDA r : notna(r.Value))

-----------------------------------------------------------------------------
(* load_and_filter_data                                                     *)

YEAR_MIN ==
    2010

YEAR_MAX ==
    2022

\* Variant of InYearRange without the upper limit.
InYearRange_no_upper(y) ==
    y >= YEAR_MIN

\* (df['Year'] >= 2010) & (df['Year'] <= 2022)
InYearRange(y) ==
    y >= YEAR_MIN /\ y <= YEAR_MAX

\* Variant of RemoveAggregateAreas that removes nothing.
RemoveAggregateAreas_none(t) ==
    t

\* ~df["Area"].isin(AGGREGATE_AREAS)
RemoveAggregateAreas(t) ==
    SelectSeq(t, LAMBDA r : r.Area \notin AGGREGATE_AREAS)

relevant_elements ==
    { ImportQuantity, ExportQuantity, Production, DomesticSupplyQuantity, Feed,
      ProteinSupplyT, ProteinSupplyGpcd, FatSupplyT, FatSupplyGpcd, Processing }

\* ~Item.str.lower().str.contains('alcohol') & ~...contains('non-food')
IsFoodItem(item) ==
    /\ ~Contains(Lower(item), s_alcohol)
    /\ ~Contains(Lower(item), s_non_food)

\* The rows self.kcal_df is cut from self.df (lines 84-88).
SelectKcal(t) ==
    SelectSeq(t, LAMBDA r : InYearRange(r.Year) /\ r.Element = FoodSupplyKcal)

\* The rows self.filtered_df is cut from self.df (lines 108-114).
SelectRelevant(t) ==
    SelectSeq(t, LAMBDA r : /\ InYearRange(r.Year)
                            /\ r.Element \in relevant_elements
                            /\ IsFoodItem(r.Item))

\* Value coerced to a number and the rows without one dropped (117-128).
CleanValues(t) ==
    dropna(to_numeric(t))

-----------------------------------------------------------------------------
(* _normalize_element_name and create_country_timeseries                    *)

\* str.replace(old, new) for single characters
ReplaceChar(s, old, new) ==
    [i \in 1..Len(s) |-> IF s[i] = old THEN new ELSE s[i]]

\* Variant of normalize_element_name whose fallback does not lower the case.
normalize_element_name_keep_case(element) ==
    CASE element = ImportQuantity -> k_imports
      [] element = ExportQuantity -> k_exports
      [] element = Production -> k_production
      [] element = DomesticSupplyQuantity -> k_domestic_supply
      [] element = Feed -> k_feed
      [] element = ProteinSupplyT -> k_protein
      [] element = ProteinSupplyGpcd -> k_protein_gpcd
      [] element = FatSupplyT -> k_fat
      [] element = FatSupplyGpcd -> k_fat_gpcd
      [] element = Processing -> k_processing
      [] OTHER -> ReplaceChar(element, 32, 95)

\* _normalize_element_name: the fixed table, else lower case with "_" for " ".
normalize_element_name(element) ==
    CASE element = ImportQuantity -> k_imports
      [] element = ExportQuantity -> k_exports
      [] element = Production -> k_production
      [] element = DomesticSupplyQuantity -> k_domestic_supply
      [] element = Feed -> k_feed
      [] element = ProteinSupplyT -> k_protein
      [] element = ProteinSupplyGpcd -> k_protein_gpcd
      [] element = FatSupplyT -> k_fat
      [] element = FatSupplyGpcd -> k_fat_gpcd
      [] element = Processing -> k_processing
      [] OTHER -> ReplaceChar(Lower(element), 32, 95)

mass_elements_kt ==
    { Production, ImportQuantity, ExportQuantity, DomesticSupplyQuantity, Feed,
      Processing }

\* Variant of ScaledValue that multiplies every element by 1000.
ScaledValue_all(element, value) ==
    LET raw_val == IF notna(value) THEN value ELSE 0
    IN  raw_val * 1000

\* raw_val of lines 213-224: the row's value, 0.0 for NaN, times 1000 for a
\* mass element.
ScaledValue(element, value) ==
    LET raw_val == IF notna(value) THEN value ELSE 0
    IN  IF element \in mass_elements_kt THEN raw_val * 1000 ELSE raw_val

\* The key of the calorie lookup for a row.
KcalKey(r) ==
    <<r.Area, r.Item, r.Year>>

\* Variant of KcalLookup that keeps the value of the first row of a key
\* (dict.setdefault).
RECURSIVE KcalLookup_first(_)
KcalLookup_first(t) ==
    IF t = <<>> THEN <<>>
    ELSE LET row == t[Len(t)]
             rest == KcalLookup_first(SubSeq(t, 1, Len(t) - 1))
         IN  IF DictHas(rest, KcalKey(row)) THEN rest
             ELSE DictSet(rest, KcalKey(row), row.Value)

\* Variant of KcalLookup that adds the values of the rows of one key.
RECURSIVE KcalLookup_sum(_)
KcalLookup_sum(t) ==
    IF t = <<>> THEN <<>>
    ELSE LET row == t[Len(t)]
             rest == KcalLookup_sum(SubSeq(t, 1, Len(t) - 1))
         IN  DictSet(rest, KcalKey(row),
                     IF DictHas(rest, KcalKey(row))
                     THEN DictGet(rest, KcalKey(row)) + row.Value
                     ELSE row.Value)

\* kcal_lookup of lines 182-185: one assignment per row of kcal_df, in order.
RECURSIVE KcalLookup(_)
KcalLookup(t) ==
    IF t = <<>> THEN <<>>
    ELSE LET row == t[Len(t)]
         IN  DictSet(KcalLookup(SubSeq(t, 1, Len(t) - 1)), KcalKey(row), row.Value)

\* Variant of AddElements that adds the values of the rows of one element.
RECURSIVE AddElements_sum(_, _)
AddElements_sum(year_data, year_group) ==
    IF year_group = <<>> THEN year_data
    ELSE LET row == year_group[1]
             key == normalize_element_name(row.Element)
         IN  AddElements_sum(
                 DictSet(year_data, key,
                         IF DictHas(year_data, key)
                         THEN DictGet(year_data, key) + ScaledValue(row.Element, row.Value)
                         ELSE ScaledValue(row.Element, row.Value)),
                 Tail(year_group))

\* The loop of lines 209-226 over the rows of one year group, in table order.
RECURSIVE AddElements(_, _)
AddElements(year_data, year_group) ==
    IF year_group = <<>> THEN year_data
    ELSE LET row == year_group[1]
         IN  AddElements(
                 DictSet(year_data, normalize_element_name(row.Element),
                         ScaledValue(row.Element, row.Value)),
                 Tail(year_group))

\* Variant of InjectKcal that takes the calorie value of any year of the
\* (country, item).
InjectKcal_any_year(year_data, kcal_lookup, kcal_key) ==
    LET same == {k \in DictKeys(kcal_lookup) : k[1] = kcal_key[1] /\ k[2] = kcal_key[2]}
    IN  IF same # {}
        THEN LET kcal_value == DictGet(kcal_lookup, CHOOSE k \in same : TRUE)
             IN  DictSet(year_data, k_food_supply_kcal,
                         IF notna(kcal_value) THEN kcal_value ELSE 0)
        ELSE year_data

\* Variant of InjectKcal that rescales the calorie value like a mass.
InjectKcal_scaled(year_data, kcal_lookup, kcal_key) ==
    IF DictHas(kcal_lookup, kcal_key)
    THEN LET kcal_value == DictGet(kcal_lookup, kcal_key)
         IN  DictSet(year_data, k_food_supply_kcal,
                     (IF notna(kcal_value) THEN kcal_value ELSE 0) * 1000)
    ELSE year_data

\* Lines 229-232: the calorie value of the key, when the lookup has one.
InjectKcal(year_data, kcal_lookup, kcal_key) ==
    IF DictHas(kcal_lookup, kcal_key)
    THEN LET kcal_value == DictGet(kcal_lookup, kcal_key)
         IN  DictSet(year_data, k_food_supply_kcal,
                     IF notna(kcal_value) THEN kcal_value ELSE 0)
    ELSE year_data

\* One YearRecord (lines 206-234).
YearData(country, item, year, year_group, kcal_lookup) ==
    InjectKcal(AddElements(<< <<k_year, year>> >>, year_group),
               kcal_lookup, <<country, item, year>>)

\* Variant of SortByYear that sorts descending (reverse=True).
SortByYear_descending(data) ==
    LET n == Len(data)
        y(i) == DictGet(data[i], k_year)
        pos(i) == Cardinality({j \in 1..n : y(j) > y(i)})
                  + Cardinality({j \in 1..(i - 1) : y(j) = y(i)}) + 1
    IN  [p \in 1..n |-> data[CHOOSE i \in 1..n : pos(i) = p]]

\* list.sort(key=lambda x: x['year']): stable, ascending.
SortByYear(data) ==
    LET n == Len(data)
        y(i) == DictGet(data[i], k_year)
        pos(i) == Cardinality({j \in 1..n : y(j) < y(i)})
                  + Cardinality({j \in 1..(i - 1) : y(j) = y(i)}) + 1
    IN  [p \in 1..n |-> data[CHOOSE i \in 1..n : pos(i) = p]]

\* Variant of YearRecords that also makes a YearRecord for a year the pair has
\* a calorie value of and no row in the group.
YearRecords_with_kcal_years(country, item, group, kcal_lookup) ==
    LET kcal_years == {kcal_lookup[j][1][3] :
                          j \in {i \in 1..Len(kcal_lookup) :
                                    /\ kcal_lookup[i][1][1] = country
                                    /\ kcal_lookup[i][1][2] = item}}
        years == SortSet({r.Year : r \in Range(group)} \cup kcal_years, IntLess)
    IN  [k \in 1..Len(years) |->
            YearData(country, item, years[k],
                     SelectSeq(group, LAMBDA r : r.Year = years[k]),
                     kcal_lookup)]

\* group.groupby('Year'): the years of the group ascending, each with its rows
\* in table order.
YearRecords(country, item, group, kcal_lookup) ==
    LET years == SortSet({r.Year : r \in Range(group)}, IntLess)
    IN  [k \in 1..Len(years) |->
            YearData(country, item, years[k],
                     SelectSeq(group, LAMBDA r : r.Year = years[k]),
                     kcal_lookup)]

\* One TimeseriesRecord (lines 195-237).
CountryItemData(country, item, group, kcal_lookup) ==
    [country |-> country,
     item    |-> item,
     unit    |-> base_unit,
     data    |-> SortByYear(YearRecords(country, item, group, kcal_lookup))]

\* Variant of TimeseriesData that groups by Area alone: one record per country,
\* under the Item of the country's first row.
TimeseriesData_by_country(filtered, kcal) ==
    LET kcal_lookup == KcalLookup(kcal)
        areas == SortSet({r.Area : r \in Range(filtered)}, StrLess)
        group(k) == SelectSeq(filtered, LAMBDA r : r.Area = areas[k])
    IN  [k \in 1..Len(areas) |->
            CountryItemData(areas[k], group(k)[1].Item, group(k), kcal_lookup)]

\* Variant of TimeseriesData that visits the pairs in the order of their first
\* row in the table (groupby(..., sort=False)).
TimeseriesData_first_seen(filtered, kcal) ==
    LET kcal_lookup == KcalLookup(kcal)
        pairs == Unique([i \in 1..Len(filtered) |->
                            <<filtered[i].Area, filtered[i].Item>>])
    IN  [k \in 1..Len(pairs) |->
            CountryItemData(pairs[k][1], pairs[k][2],
                SelectSeq(filtered, LAMBDA r : r.Area = pairs[k][1]
                                               /\ r.Item = pairs[k][2]),
                kcal_lookup)]

\* timeseries_data (lines 181-239): filtered.groupby(['Area', 'Item']) visits
\* the pairs in sorted order.
TimeseriesData(filtered, kcal) ==
    LET kcal_lookup == KcalLookup(kcal)
        pairs == SortSet({<<r.Area, r.Item>> : r \in Range(filtered)}, PairLess)
    IN  [k \in 1..Len(pairs) |->
            CountryItemData(pairs[k][1], pairs[k][2],
                SelectSeq(filtered, LAMBDA r : r.Area = pairs[k][1]
                                               /\ r.Item = pairs[k][2]),
                kcal_lookup)]

\* open(name, 'w') and json.dump: the file exists afterwards with this content.
WriteFile(fs, name, content) ==
    [n \in (DOMAIN fs) \cup {name} |-> IF n = name THEN content ELSE fs[n]]

\* What a write that raised after open(name, 'w') leaves in the file: the start
\* of the output or nothing at all, which is no JSON.  copy2 copies it as it is.
NotJson ==
    <<[not_json |-> TRUE]>>

\* Lines 241-247: shutil.copy2 of an existing timeseries.json to the backup.
BackupTimeseries(fs) ==
    IF "timeseries.json" \in DOMAIN fs
    THEN WriteFile(fs, "timeseries_backup.json", fs["timeseries.json"])
    ELSE fs

\* Variant of SaveTimeseries that appends to the records of the existing file
\* when that file holds records.
SaveTimeseries_append(fs, timeseries_data) ==
    WriteFile(BackupTimeseries(fs), "timeseries.json",
              IF "timeseries.json" \in DOMAIN fs /\ NotJson # fs["timeseries.json"]
              THEN fs["timeseries.json"] \o timeseries_data
              ELSE timeseries_data)

\* Variant of SaveTimeseries that copies to the backup unconditionally and
\* after the write.
SaveTimeseries_backup_last(fs, timeseries_data) ==
    LET saved == WriteFile(fs, "timeseries.json", timeseries_data)
    IN  WriteFile(saved, "timeseries_backup.json", saved["timeseries.json"])

\* Lines 241-251: backup, then the write of timeseries_data.
SaveTimeseries(fs, timeseries_data) ==
    WriteFile(BackupTimeseries(fs), "timeseries.json", timeseries_data)

-----------------------------------------------------------------------------
(* pandas selections whose order the library leaves open.                   *)

\* The permutations of 1..n.
Perms(n) ==
    {p \in [1..n -> 1..n] : \A i, j \in 1..n : i # j => p[i] # p[j]}

\* One sequence per way of taking an element from each set of a sequence of
\* sets.
RECURSIVE SeqProduct(_)
SeqProduct(sets) ==
    IF sets = <<>> THEN {<<>>}
    ELSE {<<h>> \o t : h \in sets[1], t \in SeqProduct(Tail(sets))}

\* The n first of s in descending order of Val, equal values in table order.
StableLargest(n, s, Val(_)) ==
    LET len == Len(s)
        pos(i) == Cardinality({j \in 1..len : Val(s[j]) > Val(s[i])})
                  + Cardinality({j \in 1..(i - 1) : Val(s[j]) = Val(s[i])}) + 1
    IN  [p \in 1..n |-> s[CHOOSE i \in 1..len : pos(i) = p]]

\* nlargest(n, 'Value') with keep='first'.  When n >= len(s) pandas returns
\* sort_values(ascending=False).head(n), a sort that is not stable: every
\* descending order of the rows is a possible result.  Otherwise it selects
\* with a stable sort and rows of equal value keep their table order.
NLargest(n, s, Val(_)) ==
    IF n >= Len(s)
    THEN {[i \in 1..Len(s) |-> s[p[i]]] :
             p \in {q \in Perms(Len(s)) :
                       \A i \in 1..(Len(s) - 1) : Val(s[q[i]]) >= Val(s[q[i + 1]])}}
    ELSE {StableLargest(n, s, Val)}

\* s[:n]
FirstN(s, n) ==
    SubSeq(s, 1, IF Len(s) < n THEN Len(s) ELSE n)

\* [f(x) for x in s] flattened: the concatenation of a sequence of sequences.
RECURSIVE Flatten(_)
Flatten(ss) ==
    IF ss = <<>> THEN <<>> ELSE ss[1] \o Flatten(Tail(ss))

Column(t, Col(_)) ==
    [i \in 1..Len(t) |-> Col(t[i])]

-----------------------------------------------------------------------------
(* create_metadata                                                          *)

\* metadata["data_summary"]; the other keys of metadata.json are the time of
\* the run and fixed text.
Metadata(filtered, kcal) ==
    [total_records |-> Len(filtered),
     kcal_records  |-> Len(kcal),
     years         |-> SortSet({r.Year : r \in Range(filtered)}, IntLess),
     countries     |-> SortSet({r.Area : r \in Range(filtered)}, StrLess),
     food_items    |-> SortSet({r.Item : r \in Range(filtered)}, StrLess),
     elements      |-> SortSet({r.Element : r \in Range(filtered)}, StrLess),
     units         |-> Unique(Column(filtered, LAMBDA r : r.Unit))]

-----------------------------------------------------------------------------
(* create_production_rankings                                               *)

RANK_YEAR ==
    2022

TOP_PRODUCERS ==
    20

\* production_2022 (lines 267-270)
Production2022(filtered) ==
    SelectSeq(filtered, LAMBDA r : r.Element = Production /\ r.Year = RANK_YEAR)

\* item_ranking for one order of the item's top producers (lines 278-291).
ItemRanking(item, group, top_producers) ==
    [item      |-> item,
     unit      |-> IF Len(group) > 0 THEN group[1].Unit ELSE default_unit,
     year      |-> RANK_YEAR,
     producers |-> [i \in 1..Len(top_producers) |->
                       [country    |-> top_producers[i].Area,
                        production |-> IF notna(top_producers[i].Value)
                                       THEN top_producers[i].Value ELSE 0,
                        rank       |-> i]]]

\* Variant of ItemRankings that takes the first rows of the item in table
\* order (head(20)) instead of the largest.
ItemRankings_head(item, production_2022) ==
    LET group == SelectSeq(production_2022, LAMBDA r : r.Item = item)
    IN  {ItemRanking(item, group, FirstN(group, TOP_PRODUCERS))}

\* The rankings of one item, one per order nlargest may return.
ItemRankings(item, production_2022) ==
    LET group == SelectSeq(production_2022, LAMBDA r : r.Item = item)
    IN  {ItemRanking(item, group, top) :
            top \in NLargest(TOP_PRODUCERS, group, LAMBDA r : r.Value)}

\* The possible rankings_data: production_2022.groupby('Item') visits the
\* items in sorted order.
RankingsData(filtered) ==
    LET production_2022 == Production2022(filtered)
        items == SortSet({r.Item : r \in Range(production_2022)}, StrLess)
    IN  SeqProduct([k \in 1..Len(items) |-> ItemRankings(items[k], production_2022)])

-----------------------------------------------------------------------------
(* create_trade_balance                                                     *)

\* trade_data (lines 307-309)
TradeData(filtered) ==
    SelectSeq(filtered, LAMBDA r : r.Element \in {ImportQuantity, ExportQuantity})

\* Variant of ElementSum that takes the value of the last row of the element
\* instead of the sum.
ElementSum_last(group, element) ==
    LET rows == SelectSeq(group, LAMBDA r : r.Element = element)
    IN  IF rows = <<>> THEN 0 ELSE rows[Len(rows)].Value

\* group[group['Element'] == element]['Value'].sum()
ElementSum(group, element) ==
    Sum(Column(SelectSeq(group, LAMBDA r : r.Element = element),
               LAMBDA r : r.Value))

\* Variant of TradeBalanceEntry that calls a country with imports equal to
\* exports a net importer (imports >= exports).
TradeBalanceEntry_gte(country, item, year, group) ==
    LET imports == ElementSum(group, ImportQuantity)
        exports == ElementSum(group, ExportQuantity)
    IN  [country       |-> country,
         item          |-> item,
         year          |-> year,
         unit          |-> IF Len(group) > 0 THEN group[1].Unit ELSE default_unit,
         imports       |-> imports,
         exports       |-> exports,
         trade_balance |-> exports - imports,
         net_importer  |-> imports >= exports]

\* trade_balance_entry (lines 317-329)
TradeBalanceEntry(country, item, year, group) ==
    LET imports == ElementSum(group, ImportQuantity)
        exports == ElementSum(group, ExportQuantity)
    IN  [country       |-> country,
         item          |-> item,
         year          |-> year,
         unit          |-> IF Len(group) > 0 THEN group[1].Unit ELSE default_unit,
         imports       |-> imports,
         exports       |-> exports,
         trade_balance |-> exports - imports,
         net_importer  |-> imports > exports]

\* trade_balance: trade_data.groupby(['Area', 'Item', 'Year']) visits the keys
\* in sorted order.
TradeBalance(filtered) ==
    LET trade_data == TradeData(filtered)
        keys == SortSet({<<r.Area, r.Item, r.Year>> : r \in Range(trade_data)},
                        TripleLess)
    IN  [k \in 1..Len(keys) |->
            TradeBalanceEntry(keys[k][1], keys[k][2], keys[k][3],
                SelectSeq(trade_data, LAMBDA r : /\ r.Area = keys[k][1]
                                                 /\ r.Item = keys[k][2]
                                                 /\ r.Year = keys[k][3]))]

-----------------------------------------------------------------------------
(* create_aggregated_summaries                                              *)

TOP_TOTALS ==
    30

summary_elements ==
    <<Production, ImportQuantity, ExportQuantity, DomesticSupplyQuantity>>

\* The loop of lines 352-357 over the four core elements.
RECURSIVE AddTotals(_, _, _)
AddTotals(year_summary, year_data, elements) ==
    IF elements = <<>> THEN year_summary
    ELSE AddTotals(
             DictSet(year_summary, normalize_element_name(elements[1]),
                     ElementSum(year_data, elements[1])),
             year_data, Tail(elements))

\* Variant of GlobalYearlyTotals with one entry for every year of the range,
\* whether the filtered table has rows of the year or not.
GlobalYearlyTotals_every_year(filtered) ==
    [k \in 1..(YEAR_MAX - YEAR_MIN + 1) |->
        AddTotals(<< <<k_year, YEAR_MIN + k - 1>> >>,
                  SelectSeq(filtered, LAMBDA r : r.Year = YEAR_MIN + k - 1),
                  summary_elements)]

\* global_summary (lines 345-359)
GlobalYearlyTotals(filtered) ==
    LET years == SortSet({r.Year : r \in Range(filtered)}, IntLess)
    IN  [k \in 1..Len(years) |->
            AddTotals(<< <<k_year, years[k]>> >>,
                      SelectSeq(filtered, LAMBDA r : r.Year = years[k]),
                      summary_elements)]

\* filtered[Element == 'Production'].groupby(col)['Value'].sum(): the sums by
\* key, keys in sorted order.
ProductionTotals(filtered, Col(_)) ==
    LET production == SelectSeq(filtered, LAMBDA r : r.Element = Production)
        keys == SortSet({Col(r) : r \in Range(production)}, StrLess)
    IN  [k \in 1..Len(keys) |->
            <<keys[k],
              Sum(Column(SelectSeq(production, LAMBDA r : Col(r) = keys[k]),
                         LAMBDA r : r.Value))>>]

\* top_countries (lines 362-369), one per order nlargest may return.
TopCountries(filtered) ==
    {[i \in 1..Len(top) |-> [country |-> top[i][1], total_production |-> top[i][2]]] :
        top \in NLargest(TOP_TOTALS, ProductionTotals(filtered, LAMBDA r : r.Area),
                         LAMBDA e : e[2])}

\* top_items (lines 372-379)
TopItems(filtered) ==
    {[i \in 1..Len(top) |-> [item |-> top[i][1], total_production |-> top[i][2]]] :
        top \in NLargest(TOP_TOTALS, ProductionTotals(filtered, LAMBDA r : r.Item),
                         LAMBDA e : e[2])}

\* The possible summary_data.
SummaryData(filtered) ==
    {[global_yearly_totals    |-> GlobalYearlyTotals(filtered),
      top_producing_countries |-> tc,
      top_produced_items      |-> ti] :
        tc \in TopCountries(filtered), ti \in TopItems(filtered)}

-----------------------------------------------------------------------------
(* create_network_data                                                      *)

\* 100 as a number of tenths
MIN_TRADE_VALUE ==
    1000

TOP_ITEMS ==
    10

TOP_TRADERS ==
    5

\* Variant of Trade2022 that keeps every row with a trade volume above 0.
Trade2022_positive(filtered) ==
    SelectSeq(filtered, LAMBDA r : /\ r.Year = RANK_YEAR
                                   /\ r.Element \in {ImportQuantity, ExportQuantity}
                                   /\ r.Value > 0)

\* trade_2022 (lines 398-402)
Trade2022(filtered) ==
    SelectSeq(filtered, LAMBDA r : /\ r.Year = RANK_YEAR
                                   /\ r.Element \in {ImportQuantity, ExportQuantity}
                                   /\ r.Value > MIN_TRADE_VALUE)

\* The nodes for one iteration order of the set of countries (lines 410-420).
Nodes(trade_2022, countries) ==
    [i \in 1..Len(countries) |->
        [id    |-> countries[i],
         index |-> i - 1,
         total_trade_volume |->
             Sum(Column(SelectSeq(trade_2022, LAMBDA r : r.Area = countries[i]),
                        LAMBDA r : r.Value)),
         type  |-> "country"]]

\* The iteration orders of a Python set of strings: any order.
SetOrders(S) ==
    {s \in [1..Cardinality(S) -> S] : \A i, j \in 1..Cardinality(S) : i # j => s[i] # s[j]}

NodesData(trade_2022) ==
    {Nodes(trade_2022, countries) :
        countries \in SetOrders({r.Area : r \in Range(trade_2022)})}

\* min(a, b)
Min(a, b) ==
    IF b < a THEN b ELSE a

\* The link of one exporter row and one importer row (lines 432-440), none
\* when both are the same country.  link_volume is 0.1 times the smaller value:
\* as many hundredths as that value has tenths.
Link(exporter, importer, item) ==
    IF exporter.Area # importer.Area
    THEN << [source |-> exporter.Area,
             target |-> importer.Area,
             value  |-> Min(exporter.Value, importer.Value),
             item   |-> item] >>
    ELSE <<>>

\* The links of one item for one order of its exporters and importers.
ItemLinks(item, exporters, importers) ==
    Flatten([e \in 1..Len(exporters) |->
                Flatten([m \in 1..Len(importers) |->
                            Link(exporters[e], importers[m], item)])])

\* The possible links of one item (lines 424-440).
ItemLinksData(item, trade_2022) ==
    LET item_data == SelectSeq(trade_2022, LAMBDA r : r.Item = item)
    IN  {ItemLinks(item, exporters, importers) :
            exporters \in NLargest(TOP_TRADERS,
                             SelectSeq(item_data, LAMBDA r : r.Element = ExportQuantity),
                             LAMBDA r : r.Value),
            importers \in NLargest(TOP_TRADERS,
                             SelectSeq(item_data, LAMBDA r : r.Element = ImportQuantity),
                             LAMBDA r : r.Value)}

\* The possible link lists: the first ten items of trade_2022 in order of first
\* occurrence.
LinksData(trade_2022) ==
    LET items == FirstN(Unique(Column(trade_2022, LAMBDA r : r.Item)), TOP_ITEMS)
    IN  {Flatten(per_item) :
            per_item \in SeqProduct([k \in 1..Len(items) |->
                                        ItemLinksData(items[k], trade_2022)])}

\* The possible network_data.
NetworkData(filtered) ==
    LET trade_2022 == Trade2022(filtered)
    IN  {[nodes |-> nodes, links |-> links] :
            nodes \in NodesData(trade_2022), links \in LinksData(trade_2022)}

-----------------------------------------------------------------------------
(* process_all's index.json                                                 *)

index_data ==
    [files |-> [metadata   |-> "metadata.json",
                timeseries |-> "timeseries.json",
                rankings   |-> "production_rankings.json",
                trade      |-> "trade_balance.json",
                summary    |-> "summary.json",
                network    |-> "network.json"],
     version |-> "enhanced_with_kcal"]

-----------------------------------------------------------------------------
(* py/extend_timeseries.py: extend_timeseries_with_feed_and_calories        *)

\* "Grand Total"
GrandTotal ==
    <<71, 114, 97, 110, 100, 32, 84, 111, 116, 97, 108>>

\* The cells pd.read_csv reads as missing (its default na_values): the empty
\* cell, "#N/A", "#N/A N/A", "#NA", "-1.#IND", "-1.#QNAN", "-NaN", "-nan",
\* "1.#IND", "1.#QNAN", "<NA>", "N/A", "NA", "NULL", "NaN", "None", "n/a", "nan",
\* "null".
NA_VALUES ==
    { <<>>,
      <<35, 78, 47, 65>>,
      <<35, 78, 47, 65, 32, 78, 47, 65>>,
      <<35, 78, 65>>,
      <<45, 49, 46, 35, 73, 78, 68>>,
      <<45, 49, 46, 35, 81, 78, 65, 78>>,
      <<45, 78, 97, 78>>,
      <<45, 110, 97, 110>>,
      <<49, 46, 35, 73, 78, 68>>,
      <<49, 46, 35, 81, 78, 65, 78>>,
      <<60, 78, 65, 62>>,
      <<78, 47, 65>>,
      <<78, 65>>,
      <<78, 85, 76, 76>>,
      <<78, 97, 78>>,
      <<78, 111, 110, 101>>,
      <<110, 47, 97>>,
      <<110, 97, 110>>,
      <<110, 117, 108, 108>> }


\* pd.isna(row['Value']) on a cell as read_csv delivers it
isna_cell(cell) ==
    cell \in NA_VALUES

\* float(value) raises ValueError: the cell is there and is no number.
FloatRaises(cell) ==
    ToNumeric(cell) = NaN

\* lookup[key] (lines 23-26): the last entry of the list with this pair, 0 when
\* there is none.
LookupIndex(timeseries, country, item) ==
    LET hits == {i \in 1..Len(timeseries) :
                    timeseries[i].country = country /\ timeseries[i].item = item}
    IN  IF hits = {} THEN 0 ELSE CHOOSE i \in hits : \A j \in hits : j <= i

\* The first year_data of a data list with this year (the loop with break),
\* 0 when there is none.
YearIndex(data, year) ==
    LET hits == {j \in 1..Len(data) : DictGet(data[j], k_year) = year}
    IN  IF hits = {} THEN 0 ELSE CHOOSE j \in hits : \A k \in hits : j <= k

\* Variant of MergeRow that replaces the matching year_data by one that has
\* the year and the row's value only.
MergeRow_rebuild(st, row, key) ==
    IF isna_cell(row.Value) \/ ~st.ok THEN st
    ELSE LET e == LookupIndex(st.ts, row.Area, row.Item)
         IN  IF e = 0 THEN st
             ELSE LET y == YearIndex(st.ts[e].data, row.Year)
                  IN  IF y = 0 THEN st
                      ELSE IF FloatRaises(row.Value) THEN [st EXCEPT !.ok = FALSE]
                      ELSE [st EXCEPT !.ts[e].data[y] =
                                          << <<k_year, row.Year>>,
                                             <<key, ToNumeric(row.Value)>> >>]

\* One pass of the loops of lines 35-51 and 60-76: the row's value is stored
\* under key in the matching year_data of the matching entry.  st.ok turns
\* FALSE when float() raises, which ends the process.
MergeRow(st, row, key) ==
    IF isna_cell(row.Value) \/ ~st.ok THEN st
    ELSE LET e == LookupIndex(st.ts, row.Area, row.Item)
         IN  IF e = 0 THEN st
             ELSE LET y == YearIndex(st.ts[e].data, row.Year)
                  IN  IF y = 0 THEN st
                      ELSE IF FloatRaises(row.Value) THEN [st EXCEPT !.ok = FALSE]
                      ELSE [st EXCEPT !.ts[e].data[y] =
                                          DictSet(@, key, ToNumeric(row.Value))]

RECURSIVE MergeRows(_, _, _)
MergeRows(st, rows, key) ==
    IF rows = <<>> THEN st
    ELSE MergeRows(MergeRow(st, rows[1], key), Tail(rows), key)

\* The year_data of a synthesized entry (lines 100-106 and 130-136).
NewYearData(row, key) ==
    << <<k_year, row.Year>>, <<k_production, 0>>, <<k_imports, 0>>,
       <<k_domestic_supply, 0>>, <<key, ToNumeric(row.Value)>> >>

\* Variant of NewEntries whose entries have no unit.
NewEntries_no_unit(rows, item, unit, key) ==
    LET countries == Unique(Column(rows, LAMBDA r : r.Area))
        valued(c) == SelectSeq(rows, LAMBDA r : r.Area = c /\ ~isna_cell(r.Value))
    IN  Flatten([k \in 1..Len(countries) |->
            IF valued(countries[k]) = <<>> THEN <<>>
            ELSE << [country |-> countries[k],
                     item    |-> item,
                     data    |-> SortByYear(Column(valued(countries[k]),
                                     LAMBDA r : NewYearData(r, key)))] >>])

\* The entries synthesized from rows, one per country in order of first
\* occurrence that has a row with a value (lines 93-115 and 123-146).
NewEntries(rows, item, unit, key) ==
    LET countries == Unique(Column(rows, LAMBDA r : r.Area))
        valued(c) == SelectSeq(rows, LAMBDA r : r.Area = c /\ ~isna_cell(r.Value))
    IN  Flatten([k \in 1..Len(countries) |->
            IF valued(countries[k]) = <<>> THEN <<>>
            ELSE << [country |-> countries[k],
                     item    |-> item,
                     unit    |-> unit,
                     data    |-> SortByYear(Column(valued(countries[k]),
                                     LAMBDA r : NewYearData(r, key)))] >>])

\* float() raises while entries are synthesized from rows.
NewEntriesRaise(rows) ==
    \E i \in 1..Len(rows) : ~isna_cell(rows[i].Value) /\ FloatRaises(rows[i].Value)

\* Variant of ExtendOutcomes that synthesizes a Grand Total entry only for a
\* country the loaded list has no Grand Total entry of.
ExtendOutcomes_once(table, timeseries) ==
    LET feed_data == SelectSeq(table, LAMBDA r : r.Element = Feed)
        calorie_data == SelectSeq(table, LAMBDA r : r.Element = FoodSupplyKcal)
        merged == MergeRows(MergeRows([ts |-> timeseries, ok |-> TRUE],
                                      feed_data, k_feed),
                            calorie_data, k_food_supply_kcal)
        new_feed_items == {r.Item : r \in Range(feed_data)}
                          \ {timeseries[i].item : i \in 1..Len(timeseries)}
        item_rows(item) == SelectSeq(feed_data, LAMBDA r : r.Item = item)
        grand_total == SelectSeq(calorie_data,
                           LAMBDA r : /\ r.Item = GrandTotal
                                      /\ LookupIndex(timeseries, r.Area, GrandTotal) = 0)
    IN  {[ts |-> merged.ts
                 \o Flatten([k \in 1..Len(items) |->
                        NewEntries(item_rows(items[k]), items[k], default_unit, k_feed)])
                 \o NewEntries(grand_total, GrandTotal, UnitKcal, k_food_supply_kcal),
          ok |-> /\ merged.ok
                 /\ \A k \in 1..Len(items) : ~NewEntriesRaise(item_rows(items[k]))
                 /\ ~NewEntriesRaise(grand_total)] :
            items \in SetOrders(new_feed_items)}

\* The outcomes of the computation of lines 16-148 on the source table and the
\* timeseries.json it loads: the list to write and whether the process got
\* there, one outcome per iteration order of the set new_feed_items.
ExtendOutcomes(table, timeseries) ==
    LET feed_data == SelectSeq(table, LAMBDA r : r.Element = Feed)
        calorie_data == SelectSeq(table, LAMBDA r : r.Element = FoodSupplyKcal)
        merged == MergeRows(MergeRows([ts |-> timeseries, ok |-> TRUE],
                                      feed_data, k_feed),
                            calorie_data, k_food_supply_kcal)
        new_feed_items == {r.Item : r \in Range(feed_data)}
                          \ {timeseries[i].item : i \in 1..Len(timeseries)}
        item_rows(item) == SelectSeq(feed_data, LAMBDA r : r.Item = item)
        grand_total == SelectSeq(calorie_data, LAMBDA r : r.Item = GrandTotal)
    IN  {[ts |-> merged.ts
                 \o Flatten([k \in 1..Len(items) |->
                        NewEntries(item_rows(items[k]), items[k], default_unit, k_feed)])
                 \o NewEntries(grand_total, GrandTotal, UnitKcal, k_food_supply_kcal),
          ok |-> /\ merged.ok
                 /\ \A k \in 1..Len(items) : ~NewEntriesRaise(item_rows(items[k]))
                 /\ ~NewEntriesRaise(grand_total)] :
            items \in SetOrders(new_feed_items)}

\* Lines 154-159: the existing timeseries.json is copied to the backup.
ExtendBackup(fs) ==
    IF "timeseries.json" \in DOMAIN fs
    THEN WriteFile(fs, "timeseries_backup.json", fs["timeseries.json"])
    ELSE fs

\* Lines 150-162: backup, then the write.
ExtendSave(fs, timeseries) ==
    WriteFile(ExtendBackup(fs), "timeseries.json", timeseries)

-----------------------------------------------------------------------------
(* The inputs the model draws.                                              *)

\* The longest source table drawn from SourceRows.
MaxRows ==
    2

\* The longest source table drawn from RepeatRows.
MaxRepeatRows ==
    3

\* How many times parse_enhanced.py is started on the same inputs.
MaxRuns ==
    2

\* How many times extend_timeseries.py is run.
MaxExtends ==
    2

\* The Unit the FAO table gives with an element.
UnitOf(element) ==
    CASE element = FoodSupplyKcal -> UnitKcal
      [] element \in {ProteinSupplyGpcd, FatSupplyGpcd} -> UnitGpcd
      [] element \in {ProteinSupplyT, FatSupplyT} -> UnitT
      [] OTHER -> Unit1000t

Row(area, item, element, year, value) ==
    [Area |-> area, Item |-> item, Element |-> element, Year |-> year,
     Unit |-> UnitOf(element), Value |-> value]

\* One country, one item, the last year: production, trade and calories, with
\* cells that are numbers, a cell that is no number and an empty cell.
BrazilRows ==
    {Row(Brazil, Soyabeans, Production, 2022, v) : v \in {v120_0, v310_5, v12c5}}
    \cup {Row(Brazil, Soyabeans, ImportQuantity, 2022, v) : v \in {v120_0, v80}}
    \cup {Row(Brazil, Soyabeans, ExportQuantity, 2022, v310_5)}
    \cup {Row(Brazil, Soyabeans, FoodSupplyKcal, 2022, v) :
             v \in {v120_0, v310_5, v12c5, v_empty}}

\* The other elements of the allow-list and one outside it.
ElementRows ==
    {Row(Brazil, Soyabeans, e, 2022, v120_0) :
        e \in (relevant_elements \ {Production, ImportQuantity, ExportQuantity})
              \cup {Losses}}

\* The years on both sides of both ends of the range.
YearRows ==
    {Row(Brazil, Soyabeans, Production, y, v120_0) : y \in {2009, 2010, 2023}}
    \cup {Row(Brazil, Soyabeans, FoodSupplyKcal, 2010, v120_0)}

\* A second country, an aggregate region and the region's name in lower case.
AreaRows ==
    {Row(SouthAfrica, Soyabeans, e, 2022, v120_0) :
        e \in {Production, ImportQuantity, ExportQuantity}}
    \cup {Row(World, Soyabeans, e, 2022, v310_5) :
             e \in {Production, ImportQuantity, ExportQuantity}}
    \cup {Row(world_lower, Soyabeans, Production, 2022, v310_5)}

\* A second food item and an item the filter excludes.
ItemRows ==
    {Row(a, WheatAndProducts, e, 2022, v310_5) :
        a \in {Brazil, World}, e \in {Production, FoodSupplyKcal}}
    \cup {Row(Brazil, AlcoholNonFood, e, 2022, v310_5) :
             e \in {Production, FoodSupplyKcal}}

\* Rows extend_timeseries.py reads and the filter drops or never selects: feed
\* of an aggregate region, feed of a year before the range, an empty feed cell
\* and the calories of the item "Grand Total".
ExtendRows ==
    {Row(World, Soyabeans, Feed, 2022, v120_0),
     Row(Brazil, WheatAndProducts, Feed, 2009, v120_0),
     Row(Brazil, Soyabeans, Feed, 2022, v_empty),
     Row(Brazil, GrandTotal, FoodSupplyKcal, 2022, v310_5)}

SourceRows ==
    BrazilRows \cup ElementRows \cup YearRows \cup AreaRows \cup ItemRows
    \cup ExtendRows

\* Rows that repeat one (country, item, year, element) with different values.
RepeatRows ==
    {Row(Brazil, WheatAndProducts, e, 2022, v) :
        e \in {Production, FoodSupplyKcal}, v \in {v120_0, v310_5}}

\* The longest source table of production rows of one item: more rows than
\* the ranking lists.
MaxLongRows ==
    22

\* Tables of more than TOP_PRODUCERS production rows of one item for 2022, the
\* countries alternating and the values cycling through 80, 310.5 and 120.0
\* from any of the three.
LongTables ==
    {[i \in 1..n |->
         Row(IF i % 2 = 1 THEN Brazil ELSE SouthAfrica, Soyabeans, Production, 2022,
             <<v80, v310_5, v120_0>>[((i + k) % 3) + 1])] :
        n \in (TOP_PRODUCERS + 1)..MaxLongRows, k \in 0..2}

\* The most traded items of a source table.
MaxItems ==
    11

\* "Crop A", "Crop B", ...: the k-th of a series of item names.
ItemName(k) ==
    <<67, 114, 111, 112, 32, 64 + k>>

\* Tables of n traded items for 2022: each of the first n - 1 items has one
\* export row of 120.0; the last item, the one with the highest volume, has an
\* export row and an import row of 310.5 of two countries.
ManyItemTables ==
    {[i \in 1..(n + 1) |->
         IF i < n THEN Row(Brazil, ItemName(i), ExportQuantity, 2022, v120_0)
         ELSE IF i = n THEN Row(Brazil, ItemName(n), ExportQuantity, 2022, v310_5)
         ELSE Row(SouthAfrica, ItemName(n), ImportQuantity, 2022, v310_5)] :
        n \in TOP_ITEMS..MaxItems}

Tables ==
    UNION ({[1..n -> SourceRows] : n \in 0..MaxRows}
           \cup {[1..n -> RepeatRows] : n \in 0..MaxRepeatRows})
    \cup LongTables
    \cup ManyItemTables

\* A timeseries.json left in the output directory by an earlier run on an
\* older source table.
OldTimeseries ==
    TimeseriesData(
        CleanValues(<<Row(Brazil, Soyabeans, Production, 2021, v80),
                      Row(Brazil, Soyabeans, Feed, 2021, v120_0)>>),
        <<>>)

NoFiles ==
    [n \in {} |-> <<>>]

\* The longest element name drawn letter by letter.
MaxElementLen ==
    3

\* "F", "e", " ", "_", "(": an upper-case and a lower-case letter, the space,
\* and two characters the fallback leaves alone.
ElementAlphabet ==
    {70, 101, 32, 95, 40}

\* The element names _normalize_element_name is called with: the names of the
\* fixed table, FAO elements outside it, names of the table in another case,
\* and every name of up to MaxElementLen characters of ElementAlphabet.
ElementNames ==
    relevant_elements
    \cup {FoodSupplyKcal, Losses}
    \cup {Lower(e) : e \in {ImportQuantity, Production, DomesticSupplyQuantity}}
    \cup UNION {[1..n -> ElementAlphabet] : n \in 0..MaxElementLen}

\* The processor after __init__, before process_all: the output directory is
\* empty or holds an earlier timeseries.json.
Init ==
    /\ csv \in Tables
    /\ files \in {NoFiles, WriteFile(NoFiles, "timeseries.json", OldTimeseries)}
    /\ df = <<>>
    /\ filtered_df = <<>>
    /\ kcal_df = <<>>
    /\ pc = "init"
    /\ runs = 1
    /\ extends = 0
    /\ element_arg = <<>>
    /\ element_ret = <<>>
    /\ written = <<>>

-----------------------------------------------------------------------------
(* The steps of process_all, one action per method it calls.                *)

load_and_filter_data ==
    /\ pc = "init"
    /\ df' = RemoveAggregateAreas(csv)
    /\ kcal_df' = CleanValues(SelectKcal(df'))
    /\ filtered_df' = CleanValues(SelectRelevant(df'))
    /\ pc' = "loaded"
    /\ UNCHANGED <<csv, files, runs, extends, element_arg, element_ret, written>>

create_metadata ==
    /\ pc = "loaded"
    /\ files' = WriteFile(files, "metadata.json", Metadata(filtered_df, kcal_df))
    /\ pc' = "metadata"
    /\ written' = Append(written, "metadata.json")
    /\ UNCHANGED <<csv, df, filtered_df, kcal_df, runs, extends, element_arg, element_ret>>

create_country_timeseries ==
    /\ pc = "metadata"
    /\ files' = SaveTimeseries(files, TimeseriesData(filtered_df, kcal_df))
    /\ pc' = "timeseries"
    /\ written' = written \o (IF "timeseries.json" \in DOMAIN files
                              THEN <<"timeseries_backup.json">> ELSE <<>>)
                       \o <<"timeseries.json">>
    /\ UNCHANGED <<csv, df, filtered_df, kcal_df, runs, extends, element_arg, element_ret>>

create_production_rankings ==
    /\ pc = "timeseries"
    /\ \E rankings_data \in RankingsData(filtered_df) :
           files' = WriteFile(files, "production_rankings.json", rankings_data)
    /\ pc' = "rankings"
    /\ written' = Append(written, "production_rankings.json")
    /\ UNCHANGED <<csv, df, filtered_df, kcal_df, runs, extends, element_arg, element_ret>>

create_trade_balance ==
    /\ pc = "rankings"
    /\ files' = WriteFile(files, "trade_balance.json", TradeBalance(filtered_df))
    /\ pc' = "trade"
    /\ written' = Append(written, "trade_balance.json")
    /\ UNCHANGED <<csv, df, filtered_df, kcal_df, runs, extends, element_arg, element_ret>>

create_aggregated_summaries ==
    /\ pc = "trade"
    /\ \E summary_data \in SummaryData(filtered_df) :
           files' = WriteFile(files, "summary.json", summary_data)
    /\ pc' = "summary"
    /\ written' = Append(written, "summary.json")
    /\ UNCHANGED <<csv, df, filtered_df, kcal_df, runs, extends, element_arg, element_ret>>

create_network_data ==
    /\ pc = "summary"
    /\ \E network_data \in NetworkData(filtered_df) :
           files' = WriteFile(files, "network.json", network_data)
    /\ pc' = "network"
    /\ written' = Append(written, "network.json")
    /\ UNCHANGED <<csv, df, filtered_df, kcal_df, runs, extends, element_arg, element_ret>>

\* validate_output only reads timeseries.json and prints.
validate_output ==
    /\ pc = "network"
    /\ pc' = "validated"
    /\ UNCHANGED <<csv, files, df, filtered_df, kcal_df, runs, extends, element_arg, element_ret, written>>

\* The end of process_all: index.json is written and the process returns.
write_index ==
    /\ pc = "validated"
    /\ files' = WriteFile(files, "index.json", index_data)
    /\ pc' = "done"
    /\ written' = Append(written, "index.json")
    /\ UNCHANGED <<csv, df, filtered_df, kcal_df, runs, extends, element_arg, element_ret>>

\* The script is started again on the same source table and output directory:
\* __init__ builds a new processor.
start_again ==
    /\ pc = "done"
    /\ runs < MaxRuns
    /\ runs' = runs + 1
    /\ df' = <<>>
    /\ filtered_df' = <<>>
    /\ kcal_df' = <<>>
    /\ pc' = "init"
    /\ written' = <<>>
    /\ UNCHANGED <<csv, files, extends, element_arg, element_ret>>

\* Variant of step_raises in which the exception of a step is caught and
\* process_all goes on with the step after it.
step_raises_caught ==
    /\ pc \in {"loaded", "metadata", "timeseries", "rankings", "trade", "summary",
               "network"}
    /\ pc' = CASE pc = "loaded" -> "metadata"
               [] pc = "metadata" -> "timeseries"
               [] pc = "timeseries" -> "rankings"
               [] pc = "rankings" -> "trade"
               [] pc = "trade" -> "summary"
               [] pc = "summary" -> "network"
               [] pc = "network" -> "validated"
    /\ UNCHANGED <<csv, files, df, filtered_df, kcal_df, runs, extends, element_arg,
                   element_ret, written>>

\* process_all has no try and no except: a read, a computation or an open()
\* that fails in a step raises, and the exception ends the process at that
\* step.  The output directory stays as the steps before left it.
step_raises ==
    /\ pc \in {"init", "loaded", "metadata", "timeseries", "rankings", "trade",
               "summary", "network", "validated"}
    /\ pc' = "raised"
    /\ UNCHANGED <<csv, files, df, filtered_df, kcal_df, runs, extends, element_arg,
                   element_ret, written>>

\* json.dump raises in a step after open(name, 'w') emptied the file of the
\* step (lines 172-173, 296-297, 334-335, 388-389, 443-444, 569-570): the file
\* is left cut off.
write_raises ==
    /\ pc \in {"loaded", "timeseries", "rankings", "trade", "summary", "validated"}
    /\ files' = WriteFile(files,
                          CASE pc = "loaded" -> "metadata.json"
                            [] pc = "timeseries" -> "production_rankings.json"
                            [] pc = "rankings" -> "trade_balance.json"
                            [] pc = "trade" -> "summary.json"
                            [] pc = "summary" -> "network.json"
                            [] pc = "validated" -> "index.json",
                          NotJson)
    /\ pc' = "raised"
    /\ UNCHANGED <<csv, df, filtered_df, kcal_df, runs, extends, element_arg,
                   element_ret, written>>

\* create_country_timeseries raises in lines 241-251 once it has started on
\* the files: copy2 raises and leaves the backup cut off; or the backup is
\* copied (when there is a timeseries.json) and then open() raises, or
\* json.dump raises and leaves timeseries.json cut off.
timeseries_write_raises ==
    /\ pc = "metadata"
    /\ \/ /\ "timeseries.json" \in DOMAIN files
          /\ files' = WriteFile(files, "timeseries_backup.json", NotJson)
          /\ written' = written
       \/ /\ "timeseries.json" \in DOMAIN files
          /\ files' = BackupTimeseries(files)
          /\ written' = Append(written, "timeseries_backup.json")
       \/ /\ files' = WriteFile(BackupTimeseries(files), "timeseries.json", NotJson)
          /\ written' = written \o (IF "timeseries.json" \in DOMAIN files
                                    THEN <<"timeseries_backup.json">> ELSE <<>>)
    /\ pc' = "raised"
    /\ UNCHANGED <<csv, df, filtered_df, kcal_df, runs, extends, element_arg, element_ret>>

\* py/extend_timeseries.py runs from start to end while no process_all is
\* running, before it starts or after it returned.  Without a timeseries.json
\* that json.load can read, or when float() raises, the process ends before it
\* writes anything.
extend_timeseries_with_feed_and_calories ==
    /\ pc \in {"init", "done"}
    /\ extends < MaxExtends
    /\ "timeseries.json" \in DOMAIN files
    /\ NotJson # files["timeseries.json"]
    /\ \E out \in ExtendOutcomes(csv, files["timeseries.json"]) :
           /\ out.ok
           /\ files' = ExtendSave(files, out.ts)
    /\ extends' = extends + 1
    /\ UNCHANGED <<csv, df, filtered_df, kcal_df, pc, runs, element_arg, element_ret, written>>

\* py/extend_timeseries.py raises in lines 154-162, after it computed the list
\* to write: copy2 raises and leaves the backup cut off; or the backup is
\* copied and then open() raises, or json.dump raises and leaves
\* timeseries.json cut off.
extend_write_raises ==
    /\ pc \in {"init", "done"}
    /\ extends < MaxExtends
    /\ "timeseries.json" \in DOMAIN files
    /\ NotJson # files["timeseries.json"]
    /\ \E out \in ExtendOutcomes(csv, files["timeseries.json"]) : out.ok
    /\ files' \in {WriteFile(files, "timeseries_backup.json", NotJson),
                   ExtendBackup(files),
                   WriteFile(ExtendBackup(files), "timeseries.json", NotJson)}
    /\ extends' = extends + 1
    /\ UNCHANGED <<csv, df, filtered_df, kcal_df, pc, runs, element_arg, element_ret, written>>

Next ==
    \/ load_and_filter_data
    \/ create_metadata
    \/ create_country_timeseries
    \/ create_production_rankings
    \/ create_trade_balance
    \/ create_aggregated_summaries
    \/ create_network_data
    \/ validate_output
    \/ write_index
    \/ start_again
    \/ step_raises
    \/ write_raises
    \/ timeseries_write_raises
    \/ extend_timeseries_with_feed_and_calories
    \/ extend_write_raises

Spec ==
    Init /\ [][Next]_vars

-----------------------------------------------------------------------------
(* _normalize_element_name on its own: one call with any element name.      *)

InitNormalize ==
    /\ element_arg \in ElementNames
    /\ element_ret = <<>>
    /\ pc = "call"
    /\ csv = <<>>
    /\ files = NoFiles
    /\ df = <<>>
    /\ filtered_df = <<>>
    /\ kcal_df = <<>>
    /\ runs = 0
    /\ extends = 0
    /\ written = <<>>

call_normalize_element_name ==
    /\ pc = "call"
    /\ element_ret' = normalize_element_name(element_arg)
    /\ pc' = "return"
    /\ UNCHANGED <<csv, files, df, filtered_df, kcal_df, runs, extends, element_arg, written>>

NextNormalize ==
    call_normalize_element_name

SpecNormalize ==
    InitNormalize /\ [][NextNormalize]_vars

-----------------------------------------------------------------------------
(* Vocabulary of the properties.                                            *)

\* timeseries.json holds what create_country_timeseries wrote: process_all is
\* past that step, or has returned and extend_timeseries.py, the other writer
\* of the file, has not run yet.
AssemblerOutput ==
    \/ pc \in {"timeseries", "rankings", "trade", "summary", "network", "validated"}
    \/ pc = "done" /\ extends = 0

\* self.filtered_df and self.kcal_df hold the result of load_and_filter_data.
Loaded ==
    pc \notin {"init", "raised"}

Exists(name) ==
    name \in DOMAIN files

\* The file exists and holds a complete output, not what a write that raised
\* left of it.
Complete(name) ==
    Exists(name) /\ NotJson # files[name]

\* A step of extend_timeseries.py that gets to the end of the script.
ExtendStep ==
    extend_timeseries_with_feed_and_calories

\* The indices of a sequence.
Ix(s) ==
    1..Len(s)

\* The element whose normalized name is a metric key of a YearRecord.
ElementOfKey(key) ==
    CASE key = k_production -> Production
      [] key = k_imports -> ImportQuantity
      [] key = k_exports -> ExportQuantity
      [] key = k_domestic_supply -> DomesticSupplyQuantity
      [] key = k_feed -> Feed
      [] key = k_processing -> Processing
      [] key = k_protein -> ProteinSupplyT
      [] key = k_protein_gpcd -> ProteinSupplyGpcd
      [] key = k_fat -> FatSupplyT
      [] key = k_fat_gpcd -> FatSupplyGpcd
      [] key = k_food_supply_kcal -> FoodSupplyKcal
      [] OTHER -> <<>>

MassKeys ==
    {k_production, k_imports, k_exports, k_domestic_supply, k_feed, k_processing}

MetricKeys ==
    MassKeys \cup {k_protein, k_protein_gpcd, k_fat, k_fat_gpcd}

\* Row i of the source table is an Observation of this element for this
\* (country, item, year): its Value is a number.
Observes(i, country, item, year, element) ==
    /\ csv[i].Area = country
    /\ csv[i].Item = item
    /\ csv[i].Year = year
    /\ csv[i].Element = element
    /\ ToNumeric(csv[i].Value) # NaN

\* The YearRecords of a (country, item, year) in a timeseries list.
YearRecordsFor(ts, country, item, year) ==
    {yd \in UNION {Range(ts[e].data) :
                      e \in {x \in Ix(ts) : ts[x].country = country /\ ts[x].item = item}} :
        DictGet(yd, k_year) = year}

\* The source table without its calorie rows, and the filtered table
\* load_and_filter_data makes of a source table.
WithoutCalories(t) ==
    SelectSeq(t, LAMBDA r : r.Element # FoodSupplyKcal)

FilteredOf(t) ==
    CleanValues(SelectRelevant(RemoveAggregateAreas(t)))

-----------------------------------------------------------------------------
(* Properties.                                                              *)

\* C1: after process_all no output names an aggregate area: no country of a
\* timeseries.json record, no producer of production_rankings.json, no entry
\* of trade_balance.json, no top producing country of summary.json, no node
\* or link endpoint of network.json, no country of metadata.json.
C1_AreaExclusion ==
    /\ AssemblerOutput =>
           \A e \in Ix(files["timeseries.json"]) :
               files["timeseries.json"][e].country \notin AGGREGATE_AREAS
    /\ Complete("production_rankings.json") =>
           \A k \in Ix(files["production_rankings.json"]) :
               \A p \in Ix(files["production_rankings.json"][k].producers) :
                   files["production_rankings.json"][k].producers[p].country
                       \notin AGGREGATE_AREAS
    /\ Complete("trade_balance.json") =>
           \A k \in Ix(files["trade_balance.json"]) :
               files["trade_balance.json"][k].country \notin AGGREGATE_AREAS
    /\ Complete("summary.json") =>
           \A k \in Ix(files["summary.json"].top_producing_countries) :
               files["summary.json"].top_producing_countries[k].country
                   \notin AGGREGATE_AREAS
    /\ Complete("network.json") =>
           /\ \A k \in Ix(files["network.json"].nodes) :
                  files["network.json"].nodes[k].id \notin AGGREGATE_AREAS
           /\ \A k \in Ix(files["network.json"].links) :
                  /\ files["network.json"].links[k].source \notin AGGREGATE_AREAS
                  /\ files["network.json"].links[k].target \notin AGGREGATE_AREAS
    /\ Complete("metadata.json") =>
           \A k \in Ix(files["metadata.json"].countries) :
               files["metadata.json"].countries[k] \notin AGGREGATE_AREAS

\* C1 witness: all six files are written from a table that has a trade row of
\* "World" above the network's threshold next to a row of a country.
C1_Witness ==
    /\ pc = "validated"
    /\ \E i \in Ix(csv) : csv[i] = Row(World, Soyabeans, ImportQuantity, 2022, v310_5)
    /\ Len(files["trade_balance.json"]) > 0
    /\ Len(files["network.json"].nodes) > 0

\* C2: every YearRecord create_country_timeseries emits has
\* 2010 <= year <= 2022.
C2_YearBound ==
    AssemblerOutput =>
        \A e \in Ix(files["timeseries.json"]) :
            \A y \in Ix(files["timeseries.json"][e].data) :
                /\ 2010 <= DictGet(files["timeseries.json"][e].data[y], k_year)
                /\ DictGet(files["timeseries.json"][e].data[y], k_year) <= 2022

\* C2 witness: the table has a production row of 2023 and one of 2010, and a
\* YearRecord is emitted.
C2_Witness ==
    /\ AssemblerOutput
    /\ \E i \in Ix(csv) : csv[i] = Row(Brazil, Soyabeans, Production, 2023, v120_0)
    /\ \E i \in Ix(csv) : csv[i] = Row(Brazil, Soyabeans, Production, 2010, v120_0)
    /\ Len(files["timeseries.json"]) > 0

\* C3: in the output of create_country_timeseries every value of a mass metric
\* is the Value of a source row of that (country, item, year, element) times
\* 1000, and every value of protein, protein_gpcd, fat, fat_gpcd and
\* food_supply_kcal is such a Value unscaled; the source row
\* (Brazil, Soyabeans, Production, 2022, 120.0), no later row of the table
\* giving another production of that key, yields production 120000.0 in the
\* 2022 YearRecord of (Brazil, Soyabeans).
C3_MassRescaling ==
    AssemblerOutput =>
        /\ \A e \in Ix(files["timeseries.json"]) :
               \A y \in Ix(files["timeseries.json"][e].data) :
                   LET rec == files["timeseries.json"][e]
                       yd  == rec.data[y]
                   IN  \A k \in Ix(yd) :
                           yd[k][1] # k_year =>
                               \E i \in Ix(csv) :
                                   /\ Observes(i, rec.country, rec.item,
                                               DictGet(yd, k_year), ElementOfKey(yd[k][1]))
                                   /\ yd[k][2] = IF yd[k][1] \in MassKeys
                                                 THEN ToNumeric(csv[i].Value) * 1000
                                                 ELSE ToNumeric(csv[i].Value)
        /\ (\E i \in Ix(csv) :
                /\ csv[i] = Row(Brazil, Soyabeans, Production, 2022, v120_0)
                /\ \A j \in Ix(csv) :
                       Observes(j, Brazil, Soyabeans, 2022, Production) => j <= i)
           => \E yd \in YearRecordsFor(files["timeseries.json"], Brazil, Soyabeans, 2022) :
                  DictHas(yd, k_production) /\ DictGet(yd, k_production) = 1200000

\* C3 witness: a YearRecord holds production 120000.0 from a Value of 120.0
\* next to protein 120.0 from a Value of 120.0.
C3_Witness ==
    /\ AssemblerOutput
    /\ \E yd \in YearRecordsFor(files["timeseries.json"], Brazil, Soyabeans, 2022) :
           /\ DictHas(yd, k_production) /\ DictGet(yd, k_production) = 1200000
           /\ DictHas(yd, k_protein) /\ DictGet(yd, k_protein) = 1200

\* C4: a YearRecord that create_country_timeseries emits for a (country, item,
\* year) contains food_supply_kcal if and only if the source table has an
\* Observation (a row with a numeric Value) with Element
\* "Food supply (kcal/capita/day)" for exactly that (country, item, year).
C4_CalorieInjection ==
    AssemblerOutput =>
        \A e \in Ix(files["timeseries.json"]) :
            \A y \in Ix(files["timeseries.json"][e].data) :
                LET rec == files["timeseries.json"][e]
                    yd  == rec.data[y]
                IN  DictHas(yd, k_food_supply_kcal)
                    <=> \E i \in Ix(csv) :
                            Observes(i, rec.country, rec.item, DictGet(yd, k_year),
                                     FoodSupplyKcal)

\* C4 witness: a YearRecord of 2022 without food_supply_kcal is emitted from a
\* table that has a calorie row of the same country and item for 2010.
C4_Witness ==
    /\ AssemblerOutput
    /\ \E i \in Ix(csv) : csv[i] = Row(Brazil, Soyabeans, FoodSupplyKcal, 2010, v120_0)
    /\ \E yd \in YearRecordsFor(files["timeseries.json"], Brazil, Soyabeans, 2022) :
           ~DictHas(yd, k_food_supply_kcal)

\* C4, the other side: a YearRecord with food_supply_kcal is emitted.
C4_WitnessInjected ==
    /\ AssemblerOutput
    /\ \E yd \in YearRecordsFor(files["timeseries.json"], Brazil, Soyabeans, 2022) :
           DictHas(yd, k_food_supply_kcal)

\* C5 as stated: given the source row (World, Wheat and products,
\* Food supply (kcal/capita/day), 2022, 310.5) the timeseries output holds for
\* (World, Wheat and products) a 2022 YearRecord with food_supply_kcal 310.5.
C5_WorldScenario ==
    (/\ AssemblerOutput
     /\ \E i \in Ix(csv) :
            csv[i] = Row(World, WheatAndProducts, FoodSupplyKcal, 2022, v310_5))
    => \E yd \in YearRecordsFor(files["timeseries.json"], World, WheatAndProducts, 2022) :
           DictHas(yd, k_food_supply_kcal) /\ DictGet(yd, k_food_supply_kcal) = 3105

\* C5 amended: "World" is an aggregate area, so the row (World, Wheat and
\* products, Food supply (kcal/capita/day), 2022, 310.5) yields no record for
\* World at all.  The same row for a country, Brazil, being the last calorie
\* Observation of its key, in a table that has a filtered row for (Brazil,
\* Wheat and products, 2022), yields a 2022 YearRecord of (Brazil, Wheat and
\* products) with food_supply_kcal 310.5, unscaled.
C5_CountryScenario ==
    AssemblerOutput =>
        /\ \A e \in Ix(files["timeseries.json"]) :
               files["timeseries.json"][e].country # World
        /\ (\E i \in Ix(csv) :
                /\ csv[i] = Row(Brazil, WheatAndProducts, FoodSupplyKcal, 2022, v310_5)
                /\ \A j \in Ix(csv) :
                       Observes(j, Brazil, WheatAndProducts, 2022, FoodSupplyKcal) => j <= i
                /\ \E j \in Ix(filtered_df) :
                       /\ filtered_df[j].Area = Brazil
                       /\ filtered_df[j].Item = WheatAndProducts
                       /\ filtered_df[j].Year = 2022)
           => /\ Cardinality(YearRecordsFor(files["timeseries.json"], Brazil,
                                            WheatAndProducts, 2022)) = 1
              /\ \A yd \in YearRecordsFor(files["timeseries.json"], Brazil,
                                          WheatAndProducts, 2022) :
                     /\ DictHas(yd, k_food_supply_kcal)
                     /\ DictGet(yd, k_food_supply_kcal) = 3105

\* C5 witness: the 2022 YearRecord of (Brazil, Wheat and products) holds
\* food_supply_kcal 310.5 although an earlier calorie row of the key says 120.0.
C5_Witness ==
    /\ AssemblerOutput
    /\ \E i, j \in Ix(csv) :
           /\ i < j
           /\ csv[i] = Row(Brazil, WheatAndProducts, FoodSupplyKcal, 2022, v120_0)
           /\ csv[j] = Row(Brazil, WheatAndProducts, FoodSupplyKcal, 2022, v310_5)
    /\ \E yd \in YearRecordsFor(files["timeseries.json"], Brazil, WheatAndProducts, 2022) :
           DictHas(yd, k_food_supply_kcal) /\ DictGet(yd, k_food_supply_kcal) = 3105

\* C6: every food_supply_kcal value of timeseries.json is the Value of one
\* single calorie Observation of the same (country, item, year), and what
\* process_all writes to production_rankings.json, trade_balance.json,
\* summary.json and network.json is what it writes for the source table
\* without its calorie rows: no calorie value enters any sum.
C6_NoCalorieTotals ==
    /\ AssemblerOutput =>
           \A e \in Ix(files["timeseries.json"]) :
               \A y \in Ix(files["timeseries.json"][e].data) :
                   LET rec == files["timeseries.json"][e]
                       yd  == rec.data[y]
                   IN  DictHas(yd, k_food_supply_kcal) =>
                           \E i \in Ix(csv) :
                               /\ Observes(i, rec.country, rec.item,
                                           DictGet(yd, k_year), FoodSupplyKcal)
                               /\ DictGet(yd, k_food_supply_kcal) = ToNumeric(csv[i].Value)
    /\ Complete("production_rankings.json") =>
           files["production_rankings.json"]
               \in RankingsData(FilteredOf(WithoutCalories(csv)))
    /\ Complete("trade_balance.json") =>
           files["trade_balance.json"] = TradeBalance(FilteredOf(WithoutCalories(csv)))
    /\ Complete("summary.json") =>
           files["summary.json"] \in SummaryData(FilteredOf(WithoutCalories(csv)))
    /\ Complete("network.json") =>
           files["network.json"] \in NetworkData(FilteredOf(WithoutCalories(csv)))

\* C6 witness: all files are written from a table with two calorie
\* Observations of one key, 120.0 and 310.5, and a YearRecord for that key.
C6_Witness ==
    /\ pc = "validated"
    /\ \E i, j \in Ix(csv) :
           /\ csv[i] = Row(Brazil, WheatAndProducts, FoodSupplyKcal, 2022, v120_0)
           /\ csv[j] = Row(Brazil, WheatAndProducts, FoodSupplyKcal, 2022, v310_5)
    /\ \E yd \in YearRecordsFor(files["timeseries.json"], Brazil, WheatAndProducts, 2022) :
           DictHas(yd, k_food_supply_kcal)
    /\ Len(files["summary.json"].global_yearly_totals) > 0

\* C7: when the assembler runs a second time in succession on the unchanged
\* source table and output directory, create_country_timeseries writes to
\* timeseries.json the content the previous run left there.
C7_IdempotentRebuild ==
    [][(pc = "metadata" /\ pc' = "timeseries" /\ runs >= 2 /\ extends = 0)
       => files'["timeseries.json"] = files["timeseries.json"]]_vars

\* C7 witness: the second run has written a timeseries.json with records; the
\* first run found an older timeseries.json with other content.
C7_Witness ==
    /\ runs = 2
    /\ extends = 0
    /\ pc = "timeseries"
    /\ Len(files["timeseries.json"]) > 0
    /\ files["timeseries.json"] # OldTimeseries

\* C8: a step of create_country_timeseries or of
\* extend_timeseries_with_feed_and_calories that writes timeseries.json while
\* one exists leaves in timeseries_backup.json the content timeseries.json had
\* before the step; when none existed, timeseries_backup.json is neither
\* created nor changed.
C8_BackupBeforeWrite ==
    [][((pc = "metadata" /\ pc' = "timeseries") \/ ExtendStep)
       => IF Exists("timeseries.json")
          THEN /\ "timeseries_backup.json" \in DOMAIN files'
               /\ files'["timeseries_backup.json"] = files["timeseries.json"]
          ELSE /\ ("timeseries_backup.json" \in DOMAIN files') = Exists("timeseries_backup.json")
               /\ Exists("timeseries_backup.json") =>
                      files'["timeseries_backup.json"] = files["timeseries_backup.json"]]_vars

\* C8 witness: extend_timeseries.py has rewritten timeseries.json and the
\* backup holds other content than the new file.
C8_Witness ==
    /\ extends = 1
    /\ Complete("timeseries_backup.json")
    /\ Complete("timeseries.json")
    /\ files["timeseries_backup.json"] # files["timeseries.json"]

\* C8 witness, the other writer: create_country_timeseries has replaced an
\* older timeseries.json and the backup holds the older content.
C8_WitnessAssembler ==
    /\ pc = "timeseries"
    /\ runs = 1
    /\ Exists("timeseries_backup.json")
    /\ files["timeseries_backup.json"] = OldTimeseries
    /\ files["timeseries.json"] # OldTimeseries

\* C8 witness, no file: create_country_timeseries has written the first
\* timeseries.json and there is no backup.
C8_WitnessNoBackup ==
    /\ pc = "timeseries"
    /\ ~Exists("timeseries_backup.json")

\* The predicate of C9 on a source row.
C9_Passes(r) ==
    /\ r.Area \notin AGGREGATE_AREAS
    /\ 2010 <= r.Year /\ r.Year <= 2022
    /\ r.Element \in { ImportQuantity, ExportQuantity, Production,
                       DomesticSupplyQuantity, Feed, ProteinSupplyT,
                       ProteinSupplyGpcd, FatSupplyT, FatSupplyGpcd, Processing }
    /\ ~Contains(Lower(r.Item), s_alcohol)
    /\ ~Contains(Lower(r.Item), s_non_food)
    /\ ToNumeric(r.Value) # NaN

\* C9: the filtered table holds exactly the source rows, in table order and
\* with their parsed Value, whose Area is not an aggregate area (exact match),
\* whose Year is in [2010, 2022], whose Element is in the allow-list, whose
\* Item contains neither "alcohol" nor "non-food" in any case, and whose Value
\* is a number; a row whose Value is no number is not in it, with no value.
C9_FilterContract ==
    Loaded =>
        LET kept == SelectSeq(csv, C9_Passes)
        IN  /\ Len(filtered_df) = Len(kept)
            /\ \A i \in Ix(kept) :
                   filtered_df[i] = [kept[i] EXCEPT !.Value = ToNumeric(@)]

\* C9 witness: of two rows that pass every other test, the one whose Value is
\* no number is dropped and the other is kept.
C9_Witness ==
    /\ Loaded
    /\ Len(csv) = 2
    /\ csv[1] = Row(Brazil, Soyabeans, Production, 2022, v12c5)
    /\ csv[2] = Row(Brazil, Soyabeans, ImportQuantity, 2022, v80)
    /\ Len(filtered_df) = 1
    /\ filtered_df[1].Value = 800

\* C9 witness, the exact match: the row of "world" is kept and that of "World"
\* is not.
C9_WitnessCase ==
    /\ Loaded
    /\ Len(csv) = 2
    /\ csv[1] = Row(World, Soyabeans, Production, 2022, v310_5)
    /\ csv[2] = Row(world_lower, Soyabeans, Production, 2022, v310_5)
    /\ Len(filtered_df) = 1
    /\ filtered_df[1].Area = world_lower

\* C10: in the assembler's output every key of a YearRecord other than year
\* and food_supply_kcal is one of the ten metric keys, the filtered table has
\* an Observation of its (country, item, year, element), and its value is that
\* of the last such Observation in table order (times 1000 for a mass metric);
\* a metric without such an Observation is not a key of the YearRecord.
C10_MetricKeys ==
    AssemblerOutput =>
        \A e \in Ix(files["timeseries.json"]) :
            \A y \in Ix(files["timeseries.json"][e].data) :
                LET rec == files["timeseries.json"][e]
                    yd  == rec.data[y]
                    obs(key) == {i \in Ix(filtered_df) :
                                    /\ filtered_df[i].Area = rec.country
                                    /\ filtered_df[i].Item = rec.item
                                    /\ filtered_df[i].Year = DictGet(yd, k_year)
                                    /\ filtered_df[i].Element = ElementOfKey(key)}
                    last(key) == CHOOSE i \in obs(key) : \A j \in obs(key) : j <= i
                IN  /\ DictKeys(yd) \subseteq MetricKeys \cup {k_year, k_food_supply_kcal}
                    /\ \A key \in MetricKeys :
                           /\ DictHas(yd, key) <=> obs(key) # {}
                           /\ DictHas(yd, key) =>
                                  DictGet(yd, key) =
                                      filtered_df[last(key)].Value
                                      * (IF key \in MassKeys THEN 1000 ELSE 1)

\* C10 witness: two Observations of one (country, item, year, element), 310.5
\* and then 120.0, give production 120000.0 and no other metric.
C10_Witness ==
    /\ AssemblerOutput
    /\ Len(csv) = 2
    /\ csv[1] = Row(Brazil, WheatAndProducts, Production, 2022, v310_5)
    /\ csv[2] = Row(Brazil, WheatAndProducts, Production, 2022, v120_0)
    /\ \E yd \in YearRecordsFor(files["timeseries.json"], Brazil, WheatAndProducts, 2022) :
           /\ DictGet(yd, k_production) = 1200000
           /\ DictKeys(yd) = {k_year, k_production}

\* The (country, item) pairs of the records of a timeseries list, in order.
RecordPairs(ts) ==
    [e \in 1..Len(ts) |-> <<ts[e].country, ts[e].item>>]

\* C11: create_country_timeseries emits exactly one TimeseriesRecord per
\* (country, item) pair of the filtered table: every pair of the filtered
\* table has a record, no pair has two, and every record's pair is in the
\* filtered table.
C11_OneRecordPerPair ==
    AssemblerOutput =>
        LET ts == files["timeseries.json"]
            pairs == {<<filtered_df[i].Area, filtered_df[i].Item>> : i \in Ix(filtered_df)}
        IN  /\ \A p \in pairs : \E e \in Ix(ts) : RecordPairs(ts)[e] = p
            /\ \A e \in Ix(ts) : RecordPairs(ts)[e] \in pairs
            /\ \A e, f \in Ix(ts) : RecordPairs(ts)[e] = RecordPairs(ts)[f] => e = f

\* C11 witness: a country with rows of two items has two records.
C11_Witness ==
    /\ AssemblerOutput
    /\ Len(filtered_df) = 2
    /\ filtered_df[1].Area = Brazil /\ filtered_df[2].Area = Brazil
    /\ filtered_df[1].Item # filtered_df[2].Item
    /\ Len(files["timeseries.json"]) = 2

\* C11 witness, the repeated pair: three rows of one pair have one record.
C11_WitnessRepeated ==
    /\ AssemblerOutput
    /\ Len(filtered_df) = 3
    /\ Len(files["timeseries.json"]) = 1

\* C12: within every TimeseriesRecord written by create_country_timeseries
\* the YearRecords of data are in ascending order of year.
C12_YearsAscending ==
    AssemblerOutput =>
        \A e \in Ix(files["timeseries.json"]) :
            LET data == files["timeseries.json"][e].data
            IN  \A y \in 1..(Len(data) - 1) :
                    DictGet(data[y], k_year) < DictGet(data[y + 1], k_year)

\* C12 witness: the table has the row of 2022 before the row of 2010 and the
\* record has 2010 before 2022.
C12_Witness ==
    /\ AssemblerOutput
    /\ Len(filtered_df) = 2
    /\ filtered_df[1].Year = 2022 /\ filtered_df[2].Year = 2010
    /\ Len(files["timeseries.json"]) = 1
    /\ Len(files["timeseries.json"][1].data) = 2
    /\ DictGet(files["timeseries.json"][1].data[1], k_year) = 2010

\* C13 as stated: the TimeseriesRecords are in the order in which their
\* (country, item) pairs first occur in the filtered table.
C13_FirstSeenOrder ==
    AssemblerOutput =>
        RecordPairs(files["timeseries.json"])
            = Unique([i \in 1..Len(filtered_df) |->
                         <<filtered_df[i].Area, filtered_df[i].Item>>])

\* C13 amended: the TimeseriesRecords are in ascending order of (country,
\* item), the strings compared code point by code point: of two consecutive
\* records the first has the lesser country, or the same country and the
\* lesser item.
C13_SortedOrder ==
    AssemblerOutput =>
        LET ts == files["timeseries.json"]
        IN  \A e \in 1..(Len(ts) - 1) :
                \/ StrLess(ts[e].country, ts[e + 1].country)
                \/ /\ ts[e].country = ts[e + 1].country
                   /\ StrLess(ts[e].item, ts[e + 1].item)

\* C13 witness: the table has a row of South Africa before a row of Brazil
\* and the records have Brazil before South Africa.
C13_Witness ==
    /\ AssemblerOutput
    /\ Len(filtered_df) = 2
    /\ filtered_df[1].Area = SouthAfrica /\ filtered_df[2].Area = Brazil
    /\ Len(files["timeseries.json"]) = 2
    /\ files["timeseries.json"][1].country = Brazil
    /\ files["timeseries.json"][2].country = SouthAfrica

\* str.lower() and str.replace(' ', '_') on a name of ASCII characters, by
\* code point.
LowerUnderscored(name) ==
    [i \in 1..Len(name) |->
        IF name[i] = 32 THEN 95
        ELSE IF name[i] >= 65 /\ name[i] <= 90 THEN name[i] + 32
        ELSE name[i]]

\* C14: _normalize_element_name maps each element_arg of its fixed table to its
\* fixed key, and every other element_arg name to its lower-case form with each
\* space replaced by an underscore.
C14_NormalizeElementName ==
    pc = "return" =>
        /\ element_arg = ImportQuantity => element_ret = k_imports
        /\ element_arg = ExportQuantity => element_ret = k_exports
        /\ element_arg = Production => element_ret = k_production
        /\ element_arg = DomesticSupplyQuantity => element_ret = k_domestic_supply
        /\ element_arg = Feed => element_ret = k_feed
        /\ element_arg = ProteinSupplyT => element_ret = k_protein
        /\ element_arg = ProteinSupplyGpcd => element_ret = k_protein_gpcd
        /\ element_arg = FatSupplyT => element_ret = k_fat
        /\ element_arg = FatSupplyGpcd => element_ret = k_fat_gpcd
        /\ element_arg = Processing => element_ret = k_processing
        /\ element_arg \notin { ImportQuantity, ExportQuantity, Production,
                            DomesticSupplyQuantity, Feed, ProteinSupplyT,
                            ProteinSupplyGpcd, FatSupplyT, FatSupplyGpcd, Processing }
               => element_ret = LowerUnderscored(element_arg)

\* C14 witness: the call with "Food supply (kcal/capita/day)", which is not in
\* the table, has returned a name with underscores and no upper-case letter.
C14_Witness ==
    /\ pc = "return"
    /\ element_arg = FoodSupplyKcal
    /\ Len(element_ret) = Len(FoodSupplyKcal)
    /\ element_ret[1] = 102
    /\ element_ret[5] = 95

\* C14 witness, the table: the call with "Domestic supply quantity" has
\* returned "domestic_supply".
C14_WitnessTable ==
    /\ pc = "return"
    /\ element_arg = DomesticSupplyQuantity
    /\ element_ret = k_domestic_supply

\* The index of the last row of kcal_df with a key.
LastKcalRow(key) ==
    CHOOSE i \in Ix(kcal_df) :
        /\ <<kcal_df[i].Area, kcal_df[i].Item, kcal_df[i].Year>> = key
        /\ \A j \in Ix(kcal_df) :
               <<kcal_df[j].Area, kcal_df[j].Item, kcal_df[j].Year>> = key => j <= i

\* C15: the calorie lookup create_country_timeseries builds from the area-
\* and year-filtered calorie rows holds one value per (country, item, year):
\* every key of a row is in it once, with the Value of the last row of that
\* key in table order, and that value is what a YearRecord of the key gets.
C15_LookupLastWins ==
    /\ Loaded =>
           LET lookup == KcalLookup(kcal_df)
           IN  /\ \A i \in Ix(kcal_df) :
                      /\ DictHas(lookup, KcalKey(kcal_df[i]))
                      /\ DictGet(lookup, KcalKey(kcal_df[i]))
                             = kcal_df[LastKcalRow(KcalKey(kcal_df[i]))].Value
               /\ \A k \in Ix(lookup) :
                      \E i \in Ix(kcal_df) : lookup[k][1] = KcalKey(kcal_df[i])
               /\ \A k, l \in Ix(lookup) : lookup[k][1] = lookup[l][1] => k = l
    /\ AssemblerOutput =>
           \A e \in Ix(files["timeseries.json"]) :
               \A y \in Ix(files["timeseries.json"][e].data) :
                   LET rec == files["timeseries.json"][e]
                       yd  == rec.data[y]
                       key == <<rec.country, rec.item, DictGet(yd, k_year)>>
                   IN  DictHas(yd, k_food_supply_kcal) =>
                           DictGet(yd, k_food_supply_kcal)
                               = kcal_df[LastKcalRow(key)].Value

\* C15 witness: the calorie rows have 310.5 and then 120.0 for one key; the
\* step has completed and the YearRecord of the key has 120.0.
C15_Witness ==
    /\ AssemblerOutput
    /\ Len(kcal_df) = 2
    /\ KcalKey(kcal_df[1]) = KcalKey(kcal_df[2])
    /\ kcal_df[1].Value = 3105 /\ kcal_df[2].Value = 1200
    /\ \E yd \in YearRecordsFor(files["timeseries.json"], Brazil, WheatAndProducts, 2022) :
           DictHas(yd, k_food_supply_kcal) /\ DictGet(yd, k_food_supply_kcal) = 1200

\* The sum of Value over the rows of filtered_df with the indices I.
RECURSIVE SumOfRows(_)
SumOfRows(I) ==
    IF I = {} THEN 0
    ELSE LET i == CHOOSE x \in I : TRUE
         IN  filtered_df[i].Value + SumOfRows(I \ {i})

\* process_all is past create_trade_balance, create_aggregated_summaries,
\* create_production_rankings, create_network_data: the file is that of this
\* run's filtered table.
TradeBalanceWritten ==
    pc \in {"trade", "summary", "network", "validated", "done"}

\* C16: create_trade_balance emits exactly one entry per (country, item, year)
\* with an Import quantity or Export quantity row in the filtered table; its
\* imports and exports are the sums of the Import quantity and of the Export
\* quantity values of the key (0 without a row), trade_balance is exports
\* minus imports, and net_importer is true exactly when imports > exports.
C16_TradeBalance ==
    TradeBalanceWritten =>
        LET tb == files["trade_balance.json"]
            trade == {i \in Ix(filtered_df) :
                         filtered_df[i].Element \in {ImportQuantity, ExportQuantity}}
            rows(e, element) == {i \in trade :
                                    /\ filtered_df[i].Area = tb[e].country
                                    /\ filtered_df[i].Item = tb[e].item
                                    /\ filtered_df[i].Year = tb[e].year
                                    /\ filtered_df[i].Element = element}
        IN  /\ \A i \in trade : \E e \in Ix(tb) :
                   /\ tb[e].country = filtered_df[i].Area
                   /\ tb[e].item = filtered_df[i].Item
                   /\ tb[e].year = filtered_df[i].Year
            /\ \A e, f \in Ix(tb) :
                   (/\ tb[e].country = tb[f].country
                    /\ tb[e].item = tb[f].item
                    /\ tb[e].year = tb[f].year) => e = f
            /\ \A e \in Ix(tb) :
                   /\ rows(e, ImportQuantity) \cup rows(e, ExportQuantity) # {}
                   /\ tb[e].imports = SumOfRows(rows(e, ImportQuantity))
                   /\ tb[e].exports = SumOfRows(rows(e, ExportQuantity))
                   /\ tb[e].trade_balance = tb[e].exports - tb[e].imports
                   /\ tb[e].net_importer = (tb[e].imports > tb[e].exports)

\* C16 witness: a key with imports of 120.0 and exports of 120.0 has one entry
\* with trade_balance 0 and net_importer false.
C16_Witness ==
    /\ TradeBalanceWritten
    /\ Len(filtered_df) = 2
    /\ Len(files["trade_balance.json"]) = 1
    /\ files["trade_balance.json"][1].imports = 1200
    /\ files["trade_balance.json"][1].exports = 1200
    /\ files["trade_balance.json"][1].trade_balance = 0
    /\ files["trade_balance.json"][1].net_importer = FALSE

\* C16 witness, the sum: two import rows of one key, 120.0 and 80, give one
\* entry with imports 200.0, exports 0 and net_importer true.
C16_WitnessSum ==
    /\ TradeBalanceWritten
    /\ Len(filtered_df) = 2
    /\ Len(files["trade_balance.json"]) = 1
    /\ files["trade_balance.json"][1].imports = 2000
    /\ files["trade_balance.json"][1].exports = 0
    /\ files["trade_balance.json"][1].net_importer = TRUE

RankingsWritten ==
    pc \in {"rankings", "trade", "summary", "network", "validated", "done"}

\* The rows of filtered_df that are Production rows of an item for 2022.
ProductionRows2022(item) ==
    {i \in Ix(filtered_df) : /\ filtered_df[i].Element = Production
                             /\ filtered_df[i].Year = 2022
                             /\ filtered_df[i].Item = item}

\* C17: for every item with a Production row for 2022 in the filtered table
\* (n such rows) create_production_rankings lists min(20, n) producers: they
\* are rows of the item with the largest values (every row above the least
\* listed value is listed, as often as the table has it, and none is listed
\* more often than the table has it), in non-increasing order of production,
\* and the producer at position i carries rank i.
C17_Rankings ==
    RankingsWritten =>
        LET rk == files["production_rankings.json"]
            items == {filtered_df[i].Item :
                         i \in {j \in Ix(filtered_df) : /\ filtered_df[j].Element = Production
                                                        /\ filtered_df[j].Year = 2022}}
        IN  /\ \A item \in items : \E k \in Ix(rk) : rk[k].item = item
            /\ \A k, l \in Ix(rk) : rk[k].item = rk[l].item => k = l
            /\ \A k \in Ix(rk) :
                   LET rows == ProductionRows2022(rk[k].item)
                       n == Cardinality(rows)
                       p == rk[k].producers
                       listed(c, v) == Cardinality({i \in Ix(p) : /\ p[i].country = c
                                                                  /\ p[i].production = v})
                       intable(c, v) == Cardinality({i \in rows : /\ filtered_df[i].Area = c
                                                                  /\ filtered_df[i].Value = v})
                   IN  /\ rk[k].item \in items
                       /\ Len(p) = IF n < 20 THEN n ELSE 20
                       /\ \A i \in Ix(p) : p[i].rank = i
                       /\ \A i \in 1..(Len(p) - 1) : p[i].production >= p[i + 1].production
                       /\ \A i \in Ix(p) :
                              listed(p[i].country, p[i].production)
                                  <= intable(p[i].country, p[i].production)
                       /\ \A i \in rows :
                              filtered_df[i].Value > p[Len(p)].production
                                  => listed(filtered_df[i].Area, filtered_df[i].Value)
                                         = intable(filtered_df[i].Area, filtered_df[i].Value)

\* C17 witness: of 21 production rows of an item, seven of them of 80, the
\* ranking lists 20, the first with 310.5 and the last with 80 and rank 20.
C17_Witness ==
    /\ RankingsWritten
    /\ Len(filtered_df) = 21
    /\ Cardinality({i \in Ix(filtered_df) : filtered_df[i].Value = 800}) = 7
    /\ Len(files["production_rankings.json"]) = 1
    /\ Len(files["production_rankings.json"][1].producers) = 20
    /\ files["production_rankings.json"][1].producers[1].production = 3105
    /\ files["production_rankings.json"][1].producers[20].production = 800
    /\ files["production_rankings.json"][1].producers[20].rank = 20

SummaryWritten ==
    pc \in {"summary", "network", "validated", "done"}

\* The rows of filtered_df of a year with an element.
YearElementRows(year, element) ==
    {i \in Ix(filtered_df) : filtered_df[i].Year = year /\ filtered_df[i].Element = element}

\* C18: global_yearly_totals of summary.json has exactly one entry for each
\* year of the filtered table, in ascending order of year, and its production,
\* imports, exports and domestic_supply are the sums of Value over the rows of
\* that year with the element, of all countries and items (0 without a row).
C18_GlobalYearlyTotals ==
    SummaryWritten =>
        LET gy == files["summary.json"].global_yearly_totals
        IN  /\ {DictGet(gy[k], k_year) : k \in Ix(gy)}
                   = {filtered_df[i].Year : i \in Ix(filtered_df)}
            /\ \A k \in 1..(Len(gy) - 1) :
                   DictGet(gy[k], k_year) < DictGet(gy[k + 1], k_year)
            /\ \A k \in Ix(gy) :
                   LET year == DictGet(gy[k], k_year)
                   IN  /\ DictKeys(gy[k]) = {k_year, k_production, k_imports,
                                             k_exports, k_domestic_supply}
                       /\ Len(gy[k]) = 5
                       /\ DictGet(gy[k], k_production)
                              = SumOfRows(YearElementRows(year, Production))
                       /\ DictGet(gy[k], k_imports)
                              = SumOfRows(YearElementRows(year, ImportQuantity))
                       /\ DictGet(gy[k], k_exports)
                              = SumOfRows(YearElementRows(year, ExportQuantity))
                       /\ DictGet(gy[k], k_domestic_supply)
                              = SumOfRows(YearElementRows(year, DomesticSupplyQuantity))

\* C18 witness: production rows of two countries for 2022, 120.0 each, give
\* one entry with production 240.0 and 0 for the other three.
C18_Witness ==
    /\ SummaryWritten
    /\ Len(filtered_df) = 2
    /\ filtered_df[1].Area # filtered_df[2].Area
    /\ Len(files["summary.json"].global_yearly_totals) = 1
    /\ DictGet(files["summary.json"].global_yearly_totals[1], k_production) = 2400
    /\ DictGet(files["summary.json"].global_yearly_totals[1], k_imports) = 0
    /\ DictGet(files["summary.json"].global_yearly_totals[1], k_exports) = 0
    /\ DictGet(files["summary.json"].global_yearly_totals[1], k_domestic_supply) = 0

\* C18 witness, the order: a row of 2022 before a row of 2010 gives the entry
\* of 2010 before the entry of 2022.
C18_WitnessYears ==
    /\ SummaryWritten
    /\ Len(filtered_df) = 2
    /\ filtered_df[1].Year = 2022 /\ filtered_df[2].Year = 2010
    /\ Len(files["summary.json"].global_yearly_totals) = 2
    /\ DictGet(files["summary.json"].global_yearly_totals[1], k_year) = 2010

NetworkWritten ==
    pc \in {"network", "validated", "done"}

\* The import and export rows of filtered_df of a country.
TradeRows(country) ==
    {i \in Ix(filtered_df) : /\ filtered_df[i].Area = country
                             /\ filtered_df[i].Element \in {ImportQuantity, ExportQuantity}}

\* The import and export rows of filtered_df of a country for 2022 with a
\* Value above 100.
SignificantTradeRows(country) ==
    {i \in TradeRows(country) : filtered_df[i].Year = 2022 /\ filtered_df[i].Value > 1000}

\* C19 as stated: the nodes of network.json are exactly the countries whose
\* total trade volume, the sum of their import and export values, is greater
\* than 0, one node per such country.
C19_NodesPositiveVolume ==
    NetworkWritten =>
        LET nodes == files["network.json"].nodes
        IN  /\ {nodes[k].id : k \in Ix(nodes)}
                   = {c \in {filtered_df[i].Area : i \in Ix(filtered_df)} :
                         SumOfRows(TradeRows(c)) > 0}
            /\ \A k, l \in Ix(nodes) : nodes[k].id = nodes[l].id => k = l

\* C19 amended: the nodes of network.json are exactly the countries with at
\* least one Import quantity or Export quantity row for 2022 whose Value is
\* greater than 100, one node per such country, and a node's
\* total_trade_volume is the sum of the Values of those rows of the country.
C19_NodesSignificantTrade ==
    NetworkWritten =>
        LET nodes == files["network.json"].nodes
        IN  /\ {nodes[k].id : k \in Ix(nodes)}
                   = {c \in {filtered_df[i].Area : i \in Ix(filtered_df)} :
                         SignificantTradeRows(c) # {}}
            /\ \A k, l \in Ix(nodes) : nodes[k].id = nodes[l].id => k = l
            /\ \A k \in Ix(nodes) :
                   nodes[k].total_trade_volume = SumOfRows(SignificantTradeRows(nodes[k].id))

\* C19 witness: a country with imports of 80 and of 120.0 for 2022 is a node
\* with total_trade_volume 120.0.
C19_Witness ==
    /\ NetworkWritten
    /\ Len(filtered_df) = 2
    /\ {filtered_df[1].Value, filtered_df[2].Value} = {800, 1200}
    /\ Len(files["network.json"].nodes) = 1
    /\ files["network.json"].nodes[1].id = Brazil
    /\ files["network.json"].nodes[1].total_trade_volume = 1200

\* C19 witness, no node: a country whose only trade row has a Value of 80 is
\* no node.
C19_WitnessNoNode ==
    /\ NetworkWritten
    /\ Len(filtered_df) = 1
    /\ filtered_df[1].Element = ImportQuantity
    /\ filtered_df[1].Value = 800
    /\ Len(files["network.json"].nodes) = 0

\* The import and export rows of filtered_df the network is built from: those
\* for 2022 with a Value above 100.
NetworkRows ==
    {i \in Ix(filtered_df) : /\ filtered_df[i].Year = 2022
                             /\ filtered_df[i].Element \in {ImportQuantity, ExportQuantity}
                             /\ filtered_df[i].Value > 1000}

\* The subsets of the n largest of a set R under a measure: n elements (all of
\* R when it has fewer), none of them less than an element left out.
Largest(n, R, Measure(_)) ==
    {S \in SUBSET R :
        /\ Cardinality(S) = IF Cardinality(R) < n THEN Cardinality(R) ELSE n
        /\ \A a \in S : \A b \in R \ S : Measure(a) >= Measure(b)}

\* C20: the links of network.json are exactly these: for each of the ten
\* items with the highest trade volume (all items when there are fewer than
\* ten), for each pair of one of the item's top-5 exporter rows and one of its
\* top-5 importer rows whose Areas differ, one link from the exporter to the
\* importer with value 0.1 * min(exporter value, importer value); no link
\* connects a country to itself and no other item has a link.
C20_LinksOfTopTenItems ==
    NetworkWritten =>
        LET links == files["network.json"].links
            items == {filtered_df[i].Item : i \in NetworkRows}
            volume(item) == SumOfRows({i \in NetworkRows : filtered_df[i].Item = item})
            side(item, element) == {i \in NetworkRows : /\ filtered_df[i].Item = item
                                                        /\ filtered_df[i].Element = element}
            value(i) == filtered_df[i].Value
            link(e, m, item) == [source |-> filtered_df[e].Area,
                                 target |-> filtered_df[m].Area,
                                 value  |-> IF value(e) < value(m) THEN value(e) ELSE value(m),
                                 item   |-> item]
        IN  \E top \in Largest(10, items, volume) :
                /\ \A k \in Ix(links) : /\ links[k].item \in top
                                        /\ links[k].source # links[k].target
                /\ \A item \in top :
                       \E exporters \in Largest(5, side(item, ExportQuantity), value) :
                           \E importers \in Largest(5, side(item, ImportQuantity), value) :
                               LET pairs == {p \in exporters \X importers :
                                                filtered_df[p[1]].Area # filtered_df[p[2]].Area}
                               IN  /\ \A p \in pairs :
                                          Cardinality({k \in Ix(links) :
                                                          links[k] = link(p[1], p[2], item)})
                                          = Cardinality({q \in pairs :
                                                            link(q[1], q[2], item)
                                                                = link(p[1], p[2], item)})
                                   /\ \A k \in Ix(links) :
                                          links[k].item = item =>
                                              \E p \in pairs : links[k] = link(p[1], p[2], item)

\* C20, the run that decides it: eleven items are traded in 2022, the last of
\* them with the highest volume and with an exporter and an importer, and
\* network.json has no link.
C20_EleventhItemDropped ==
    /\ NetworkWritten
    /\ Cardinality({filtered_df[i].Item : i \in NetworkRows}) = 11
    /\ \E i, j \in NetworkRows :
           /\ filtered_df[i].Item = ItemName(11) /\ filtered_df[j].Item = ItemName(11)
           /\ filtered_df[i].Element = ExportQuantity
           /\ filtered_df[j].Element = ImportQuantity
           /\ filtered_df[i].Area # filtered_df[j].Area
    /\ Len(files["network.json"].links) = 0

\* C20 on ten items: the tenth item, the one with an exporter and an importer,
\* has its link.
C20_TenthItemLinked ==
    /\ NetworkWritten
    /\ Cardinality({filtered_df[i].Item : i \in NetworkRows}) = 10
    /\ Len(files["network.json"].links) = 1
    /\ files["network.json"].links[1].item = ItemName(10)
    /\ files["network.json"].links[1].value = 3105


-----------------------------------------------------------------------------
(* process_all on an empty result and the order of its writes.              *)

\* The filter left no row and no calorie row.
EmptyResult ==
    Loaded /\ filtered_df = <<>> /\ kcal_df = <<>>

\* C21: when the filter leaves zero rows and zero calorie rows, every file the
\* run has written is empty: timeseries.json, production_rankings.json and
\* trade_balance.json are empty arrays, summary.json has three empty lists and
\* network.json has no nodes and no links; no stage raises on the empty
\* tables, so process_all gets to the write of index.json (the witness).
C21_EmptyResult ==
    EmptyResult =>
        /\ pc \in {"timeseries", "rankings", "trade", "summary", "network", "validated"}
               => files["timeseries.json"] = <<>>
        /\ "production_rankings.json" \in Range(written)
               => files["production_rankings.json"] = <<>>
        /\ "trade_balance.json" \in Range(written)
               => files["trade_balance.json"] = <<>>
        /\ "summary.json" \in Range(written)
               => files["summary.json"] = [global_yearly_totals    |-> <<>>,
                                          top_producing_countries |-> <<>>,
                                          top_produced_items      |-> <<>>]
        /\ "network.json" \in Range(written)
               => files["network.json"] = [nodes |-> <<>>, links |-> <<>>]

\* C21 witness: a source table of two rows the filter drops (an aggregate
\* region and a cell that is no number) went through every stage, and
\* index.json was written last.
C21_Witness ==
    /\ pc = "done"
    /\ Len(csv) = 2
    /\ csv[1] = Row(World, Soyabeans, Production, 2022, v310_5)
    /\ csv[2] = Row(Brazil, Soyabeans, Production, 2022, v12c5)
    /\ EmptyResult
    /\ written[Len(written)] = "index.json"
    /\ files["timeseries.json"] = <<>>
    /\ files["summary.json"].global_yearly_totals = <<>>
    /\ files["network.json"].nodes = <<>>

\* The output files of process_all in the order of its calls.
WriteOrder ==
    <<"metadata.json", "timeseries.json", "production_rankings.json",
      "trade_balance.json", "summary.json", "network.json", "index.json">>

\* The six files index.json names.
IndexedFiles ==
    {"metadata.json", "timeseries.json", "production_rankings.json",
     "trade_balance.json", "summary.json", "network.json"}

\* s is the start of t.
IsPrefix(s, t) ==
    /\ Len(s) <= Len(t)
    /\ \A i \in Ix(s) : s[i] = t[i]

\* The writes of the running process_all without the backup copy.
OutputsWritten ==
    SelectSeq(written, LAMBDA n : n # "timeseries_backup.json")

\* What C22 says of every state.
C22_State ==
    /\ IsPrefix(OutputsWritten, WriteOrder)
    /\ \A i \in Ix(written) :
           written[i] = "timeseries_backup.json"
               => /\ i > 1 /\ written[i - 1] = "metadata.json"
                  /\ i < Len(written) => written[i + 1] = "timeseries.json"
    /\ \A n \in Range(written) : Exists(n)
    /\ "index.json" \in Range(written) => IndexedFiles \subseteq Range(written)
    /\ pc = "done" => /\ OutputsWritten = WriteOrder
                      /\ Exists("metadata.json")
                      /\ Exists("timeseries.json")
                      /\ Exists("index.json")

\* What C22 says of every step.
C22_Step ==
    /\ pc # "raised"
    /\ DOMAIN files \subseteq DOMAIN files'
    /\ pc' = "raised"
           => /\ OutputsWritten' = OutputsWritten
              /\ \A n \in Range(written) : files'[n] = files[n]
              /\ \A n \in DOMAIN files' :
                     (n \notin DOMAIN files \/ files'[n] # files[n])
                         => n \in {WriteOrder[Len(OutputsWritten) + 1],
                                   "timeseries_backup.json"}

\* C22: process_all writes metadata.json, timeseries.json (after the backup
\* copy when there is one), production_rankings.json, trade_balance.json,
\* summary.json, network.json and index.json in this order; a step that raises
\* ends the run there: it touches at most the file it was about to write (and
\* the backup), nothing is written afterwards in that run, no file is removed
\* and the files written earlier keep their content; index.json is
\* written only when the six files it names were written in the same run; after
\* a run that completes metadata.json, timeseries.json and index.json exist.
C22_WriteOrder ==
    []C22_State /\ [][C22_Step]_vars

\* C22 witness: a second run raised in create_aggregated_summaries and left
\* summary.json cut off; the four files written before it are there, and
\* index.json is the one of the first run.
C22_Witness ==
    /\ pc = "raised"
    /\ runs = 2
    /\ written = <<"metadata.json", "timeseries_backup.json", "timeseries.json",
                   "production_rankings.json", "trade_balance.json">>
    /\ NotJson # files["trade_balance.json"]
    /\ Exists("summary.json")
    /\ NotJson = files["summary.json"]
    /\ Exists("index.json")
    /\ files["index.json"] = index_data
    /\ filtered_df # <<>>

\* C22 witness, a run that completes in an empty output directory.
C22_WitnessComplete ==
    /\ pc = "done"
    /\ runs = 1
    /\ written = WriteOrder
    /\ filtered_df # <<>>

-----------------------------------------------------------------------------
(* extend_timeseries_with_feed_and_calories on the output directory.        *)

\* The entries of the file written by a step of extend_timeseries.py that the
\* file it loaded did not have: the script appends them.
Synthesized ==
    (Len(files["timeseries.json"]) + 1)..Len(files'["timeseries.json"])

\* C23: every YearRecord of an entry synthesized by extend_timeseries.py (of a
\* feed-only item or of Grand Total) has production, imports, exports and
\* domestic_supply, each 0, next to its feed or its food_supply_kcal.
C23_ZeroPlaceholders ==
    [][ExtendStep =>
          \A e \in Synthesized :
              \A y \in Ix(files'["timeseries.json"][e].data) :
                  LET yd == files'["timeseries.json"][e].data[y]
                  IN  /\ \A key \in {k_production, k_imports, k_exports,
                                       k_domestic_supply} :
                             DictHas(yd, key) /\ DictGet(yd, key) = 0
                      /\ DictHas(yd, k_feed) \/ DictHas(yd, k_food_supply_kcal)]_vars

\* The source has a row of the element of key (feed or food_supply_kcal) for
\* this country, item and year whose Value is not missing.
SourceHasValue(country, item, year, key) ==
    \E i \in Ix(csv) :
        /\ csv[i].Area = country
        /\ csv[i].Item = item
        /\ csv[i].Year = year
        /\ csv[i].Element = (IF key = k_feed THEN Feed ELSE FoodSupplyKcal)
        /\ ~isna_cell(csv[i].Value)

\* C24: a run of extend_timeseries.py removes nothing from timeseries.json:
\* every record of the file it loaded is at its place in the file it writes,
\* with its country, item, unit and as many YearRecords; every field of such a
\* YearRecord is still there, and with its value unless the field is feed or
\* food_supply_kcal and the source has a row with a value for the record's
\* country and item, the YearRecord's year and the field's element.  A feed
\* field the source has no row for therefore stays (the witness).
C24_ExtendFrame ==
    [][ExtendStep =>
          LET old == files["timeseries.json"]
              new == files'["timeseries.json"]
          IN  /\ Len(old) <= Len(new)
              /\ \A e \in Ix(old) :
                     /\ new[e].country = old[e].country
                     /\ new[e].item = old[e].item
                     /\ new[e].unit = old[e].unit
                     /\ Len(new[e].data) = Len(old[e].data)
                     /\ \A y \in Ix(old[e].data) :
                            \A key \in DictKeys(old[e].data[y]) :
                                /\ DictHas(new[e].data[y], key)
                                /\ DictGet(new[e].data[y], key) # DictGet(old[e].data[y], key)
                                       => /\ key \in {k_feed, k_food_supply_kcal}
                                          /\ SourceHasValue(old[e].country, old[e].item,
                                                 DictGet(old[e].data[y], k_year), key)]_vars

\* C24 witness: timeseries.json came from an older source table with a feed
\* row of 2021; the source now has a feed row of 2022 only; after the run of
\* extend_timeseries.py the record still has its feed of 2021.
C24_Witness ==
    /\ pc = "init"
    /\ extends = 1
    /\ csv = <<Row(Brazil, Soyabeans, Feed, 2022, v120_0)>>
    /\ Complete("timeseries.json")
    /\ Len(files["timeseries.json"]) = 1
    /\ DictGet(files["timeseries.json"][1].data[1], k_year) = 2021
    /\ DictGet(files["timeseries.json"][1].data[1], k_feed) = 1200000
    /\ files["timeseries_backup.json"] = OldTimeseries

\* C24 witness, the overwrite: the feed of 2022 the assembler wrote is replaced
\* by the value of the source row and production stays.
C24_WitnessOverwrite ==
    /\ pc = "done"
    /\ extends = 1
    /\ csv = <<Row(Brazil, Soyabeans, Production, 2022, v310_5),
               Row(Brazil, Soyabeans, Feed, 2022, v120_0)>>
    /\ Complete("timeseries.json")
    /\ Complete("timeseries_backup.json")
    /\ DictGet(files["timeseries_backup.json"][1].data[1], k_feed) = 1200000
    /\ DictGet(files["timeseries.json"][1].data[1], k_feed) = 1200
    /\ DictGet(files["timeseries.json"][1].data[1], k_production) = 3105000

\* C25: every record of timeseries.json, written by create_country_timeseries
\* or by extend_timeseries.py, has exactly the keys country, item, unit and
\* data; data is a list of dictionaries, and each of them has a year that is an
\* integer.  (A file a write that raised left cut off has no records.)
C25_RecordShape ==
    Complete("timeseries.json") =>
        \A e \in Ix(files["timeseries.json"]) :
            LET rec == files["timeseries.json"][e]
            IN  /\ DOMAIN rec = {"country", "item", "unit", "data"}
                /\ DOMAIN rec.data = Ix(rec.data)
                /\ \A y \in Ix(rec.data) :
                       /\ DictHas(rec.data[y], k_year)
                       /\ DictGet(rec.data[y], k_year) \in Int
                       /\ Cardinality({i \in Ix(rec.data[y]) :
                                          rec.data[y][i][1] = k_year}) = 1

\* C25 witness: a file with a record the assembler wrote and, after it, a
\* record extend_timeseries.py synthesized, each with one YearRecord.
C25_Witness ==
    /\ pc = "done"
    /\ extends = 1
    /\ Complete("timeseries.json")
    /\ Len(files["timeseries.json"]) = 2
    /\ files["timeseries.json"][1].unit = base_unit
    /\ files["timeseries.json"][2].item = GrandTotal
    /\ files["timeseries.json"][2].unit = UnitKcal
    /\ Len(files["timeseries.json"][1].data) = 1
    /\ DictGet(files["timeseries.json"][2].data[1], k_year) = 2022

\* The source has a calorie row of Grand Total with a value.
SourceHasGrandTotal ==
    \E i \in Ix(csv) :
        /\ csv[i].Item = GrandTotal
        /\ csv[i].Element = FoodSupplyKcal
        /\ ~isna_cell(csv[i].Value)

\* C26: extend_timeseries.py is not idempotent: on a source table with a
\* calorie row of Grand Total, a run after an earlier run, the source
\* unchanged, writes a timeseries.json that differs from the one it loaded
\* (it has one more Grand Total entry).
C26_NotIdempotent ==
    [][(ExtendStep /\ extends >= 1 /\ SourceHasGrandTotal)
           => /\ files'["timeseries.json"] # files["timeseries.json"]
              /\ Len(files'["timeseries.json"]) > Len(files["timeseries.json"])]_vars

\* C26 witness: two runs in succession on the timeseries.json of an older
\* source table; the backup of the second run is the file after the first run
\* and the file after the second run has one entry more.
C26_Witness ==
    /\ pc = "init"
    /\ runs = 1
    /\ extends = 2
    /\ csv = <<Row(Brazil, GrandTotal, FoodSupplyKcal, 2022, v310_5)>>
    /\ Complete("timeseries.json")
    /\ Len(files["timeseries_backup.json"]) = 2
    /\ Len(files["timeseries.json"]) = 3
    /\ files["timeseries.json"][2] = files["timeseries.json"][3]
    /\ files["timeseries.json"] # files["timeseries_backup.json"]

\* C27: when extend_timeseries.py runs on the timeseries.json that
\* create_country_timeseries wrote, no record of the file it writes has a
\* country of the aggregate-region denylist and every YearRecord of the file
\* has a year from 2010 to 2022.
C27_FiltersSurviveExtend ==
    [][(ExtendStep /\ AssemblerOutput)
           => \A e \in Ix(files'["timeseries.json"]) :
                  LET rec == files'["timeseries.json"][e]
                  IN  /\ rec.country \notin AGGREGATE_AREAS
                      /\ \A y \in Ix(rec.data) :
                             /\ YEAR_MIN <= DictGet(rec.data[y], k_year)
                             /\ DictGet(rec.data[y], k_year) <= YEAR_MAX]_vars

\* The state C27 fails in: after process_all and one run of
\* extend_timeseries.py on a source table with a feed row of World and a feed
\* row of 2009, timeseries.json has a record of World and a YearRecord of 2009.
C27_Reached ==
    /\ pc = "done"
    /\ runs = 1
    /\ extends = 1
    /\ Complete("timeseries.json")
    /\ "timeseries_backup.json" \in DOMAIN files
    /\ files["timeseries_backup.json"] = <<>>
    /\ \E e \in Ix(files["timeseries.json"]) :
           files["timeseries.json"][e].country = World
    /\ \E e \in Ix(files["timeseries.json"]) :
           DictGet(files["timeseries.json"][e].data[1], k_year) = 2009

\* C28: when extend_timeseries.py runs on the timeseries.json that
\* create_country_timeseries wrote from the same source table, every feed
\* value of the file it writes is 1000 times the Value of a Feed row of the
\* source for the record's country and item and the YearRecord's year.
C28_FeedScaleSurvivesExtend ==
    [][(ExtendStep /\ AssemblerOutput)
           => \A e \in Ix(files'["timeseries.json"]) :
                  LET rec == files'["timeseries.json"][e]
                  IN  \A y \in Ix(rec.data) :
                          DictHas(rec.data[y], k_feed)
                              => \E i \in Ix(csv) :
                                     /\ csv[i].Area = rec.country
                                     /\ csv[i].Item = rec.item
                                     /\ csv[i].Year = DictGet(rec.data[y], k_year)
                                     /\ csv[i].Element = Feed
                                     /\ ToNumeric(csv[i].Value) # NaN
                                     /\ DictGet(rec.data[y], k_feed)
                                            = ToNumeric(csv[i].Value) * 1000]_vars

\* No two records of a timeseries list have the same (country, item) pair.
PairsUnique(ts) ==
    \A e, f \in Ix(ts) : RecordPairs(ts)[e] = RecordPairs(ts)[f] => e = f

\* C29: when no two records of the timeseries.json that extend_timeseries.py
\* loads have the same (country, item) pair, no two records of the file it
\* writes have, whatever the source table and however many runs came before.
C29_PairsStayUnique ==
    [][(ExtendStep /\ PairsUnique(files["timeseries.json"]))
           => PairsUnique(files'["timeseries.json"])]_vars

-----------------------------------------------------------------------------
(* Calories without a filtered row.                                         *)

\* The rows of the filtered table of a (country, item, year).
FilteredRows(country, item, year) ==
    {i \in Ix(filtered_df) : /\ filtered_df[i].Area = country
                             /\ filtered_df[i].Item = item
                             /\ filtered_df[i].Year = year}

\* C30: in the assembler's output every YearRecord has a metric of a row of
\* the filtered table of its (country, item, year), so none consists of year
\* and food_supply_kcal alone; a (country, item, year) with a calorie row and
\* no row in the filtered table has no YearRecord, and its calorie value is in
\* no record of that country and item.
C30_NoCalorieOnlyYearRecord ==
    AssemblerOutput =>
        LET ts == files["timeseries.json"]
        IN  /\ \A e \in Ix(ts) :
                   \A y \in Ix(ts[e].data) :
                       /\ FilteredRows(ts[e].country, ts[e].item,
                                       DictGet(ts[e].data[y], k_year)) # {}
                       /\ DictKeys(ts[e].data[y]) \cap MetricKeys # {}
                       /\ DictKeys(ts[e].data[y]) # {k_year, k_food_supply_kcal}
            /\ \A i \in Ix(kcal_df) :
                   FilteredRows(kcal_df[i].Area, kcal_df[i].Item, kcal_df[i].Year) = {}
                       => YearRecordsFor(ts, kcal_df[i].Area, kcal_df[i].Item,
                                         kcal_df[i].Year) = {}

\* C30 witness: Brazil and Soyabeans have a calorie row of 2010 and a
\* production row of 2022 only; the record has the YearRecord of 2022, with no
\* calories, and none of 2010.
C30_Witness ==
    /\ AssemblerOutput
    /\ Len(kcal_df) = 1
    /\ kcal_df[1].Year = 2010
    /\ Len(filtered_df) = 1
    /\ filtered_df[1].Year = 2022
    /\ filtered_df[1].Area = kcal_df[1].Area
    /\ filtered_df[1].Item = kcal_df[1].Item
    /\ Len(files["timeseries.json"]) = 1
    /\ Len(files["timeseries.json"][1].data) = 1
    /\ DictKeys(files["timeseries.json"][1].data[1]) = {k_year, k_production}
====
